---- MODULE Spec2Model ----
(***************************************************************************)
(* A model of FullStack-Bench's agent framework:                           *)
(*   - the conversation history, its compression and the step / run loops  *)
(*     of WebGenAgent2V1 (src/agents/core/agent.py) and of                 *)
(*     BackendTestingAgent (src/agents/core/backend_testing_agent.py);     *)
(*   - the tmux-backed terminal session BashSession                        *)
(*     (src/agents/tools/terminal/bash.py).                                *)
(*   - DBWatcher (src/utils/db_watcher.py) and ToolRegistry.execute_tool    *)
(*     (src/agents/core/tool_registry.py).                                 *)
(*   - the batch runners of the baselines (infer_batch_fullstack.py,      *)
(*     run_batch.py, batch_run.py, automatic_run_fullstack.py), the Docker *)
(*     sandbox utilities (utils/sandbox.py), the replace and read_file     *)
(*     tools (edit_tool.py, file_tools.py) and backend_compute_acc;        *)
(*   - the evaluation: compute_acc (eval_tddev/compute_acc.py), the        *)
(*     database grading of eval_db.py, and the watchers of several test    *)
(*     cases over the statement log of one database server.                *)
(* SpecAgent runs the agents, SpecAgentLong a run with one more iteration, *)
(* SpecBash the terminal session, SpecDb the watcher, SpecPg watchers on   *)
(* a shared statement log, SpecTools the registry, SpecBatch the           *)
(* ledger-based runners, SpecTddev the TDDev runner, SpecSandbox and       *)
(* SpecCompose the sandbox, SpecEdit and SpecRead the file tools, SpecAcc  *)
(* the backend accuracy tables, SpecCa compute_acc, SpecGrade the          *)
(* database grading.                                                       *)
(***************************************************************************)
EXTENDS Integers, Sequences, FiniteSets, TLC

VARIABLES
    \* ---- agent (agent.py, backend_testing_agent.py) ----
    agent,          \* which class runs: "webgen" or "backend"
    max_iterations, \* config.max_iterations
    resumeLogs,     \* the step logs initialize_agent finds in log_dir: entry i
                    \* is the log of step i - 1 of an earlier run
    replayed,       \* the tool calls _restore_environment_state executed, in order
    pc,             \* position in run(): init, loop, returned, done, fault
    history,        \* self.history
    validation_num, \* self.validation_num
    is_frontend,    \* self.is_frontend
    step_idx,       \* the loop variable of run_agent
    result,         \* what run_agent returned: "none", "true", "false", "finished", "max_iterations_reached"
    marker,         \* finished.json exists
    \* observations of the last step (history variables of the model)
    sent,           \* the message list handed to llm_generation by the last step
    stepHist,       \* self.history when the last step returned
    cmpLog,         \* the compressions the last step ran: <<[before, after, path]>>
    lastStep,       \* [type, resp, frontend]: result of the last step
    phases,         \* the phases in which a step reported finished, in order
    summary,        \* BackendTestingAgent: result["summary"] of the finishing step
    testing_result, \* BackendTestingAgent: what run wrote to testing_result.json
    \* ---- terminal session (bash.py) ----
    status,         \* self._status
    sentinel,       \* self._sentinel_id (0: attribute not set yet)
    pane,           \* what capture-pane returns: a sequence of tokens
    shell,          \* the wrapped commands typed into the pane and not finished
    outstanding,    \* a foreground command was sent and neither its DONE marker
                    \* was observed nor C-c sent since
    calls,          \* number of execute() calls made
    obs,            \* the observation the last execute() returned, with the call's inputs
    \* ---- DBWatcher (db_watcher.py) ----
    logDir,         \* "absent": no log directory; "empty": it holds no CSV file;
                    \* "csv": it holds the server's CSV log
    rows,           \* the rows of the CSV log, in file order
    ckpt,           \* self._ckpt for the CSV log (-1: the dict has no entry for it)
    dbObs,          \* the last DBWatcher call, with what it returned
    \* ---- ToolRegistry (tool_registry.py) ----
    tools,          \* the names registered in self.tools
    toolObs,        \* the last execute_tool call, with its outcome
    toolCalls,      \* number of execute_tool calls made
    \* ---- batch runners (infer_batch_fullstack.py, run_batch.py, batch_run.py) ----
    driver,         \* the runner used on the corpus: "none" before the first run,
                    \* then "webgen", "qwen" or "openhands"
    ledger,         \* the ids recorded in the runner's JSONL ledger, in file order
    pending,        \* the samples main still has to go through in this run
    batchPc,        \* "idle": never run; "running": in main's loop; "done": main
                    \* returned; "halted": an exception left main
    runNo,          \* number of runs of main started
    invoked,        \* per sample: how many times the agent / CLI was invoked on it
    artifact,       \* per sample: the run that last wrote its workspace (0: none)
    succeeded,      \* the samples whose processing completed without a failure
    errorTrace,     \* the samples whose log directory holds an error.trace file
    batchObs,       \* the last loop iteration: sample, outcome and what it did
    \* ---- TDDev runner (automatic_run_fullstack.py) ----
    tdPc,           \* position in main: "idle", "loop" (top of the loop body),
                    \* "waiting" (in wait_until_client_ready), "ready", "cooldown"
                    \* (in the sleep that ends the body), "done", "halted"
    tdPending,      \* the samples the loop still has to go through
    tdRuns,         \* number of runs of main started
    sandboxUp,      \* the samples whose Docker sandbox is running
    clientUp,       \* the client application process is alive
    zips,           \* the samples with a <test_id>.zip in OUTPUT_DIR
    last_zip_log,   \* LAST_ZIP_LOG_PATH: 0 when the file is absent, else the
                    \* sample whose request produced the archive it names
    zipFrom,        \* per sample, the sample whose request produced the
                    \* archive stored as <test_id>.zip, 0 when there is none
    tdObs,          \* the sample the loop is at or was last at, and what main
                    \* did for it so far
    \* ---- Docker sandbox (utils/sandbox.py, webgen-agent sandbox.py) ----
    stopObs,        \* the last stop_docker_containers call: what its docker
                    \* commands did, the commands it ran, what it returned
    startObs,       \* the last start_docker_containers call, likewise
    projects,       \* the compose projects written by create_docker_compose_file
                    \* for runs that are under way, with their Docker names
    \* ---- file tools (edit_tool.py, file_tools.py) ----
    fileExists,     \* the file at the path the tools are called with exists
    file,           \* its content, a sequence of characters
    editObs,        \* the last replace call: its parameters, the file before it
                    \* and the kind of its result
    readText,       \* the content of the text file read_file is called on
    readLimit,      \* the limit the caller passes to every read_file call (0: no
                    \* call made yet)
    pages,          \* the contents the read_file calls returned, in call order
    readObs,        \* the last read_file call: its offset and its response
    \* ---- backend accuracy (eval_qwen-code/backend_compute_acc.py) ----
    accPc,          \* backend_compute_acc: "idle", "loop" (in the loop over the
                    \* task directories), "done", "fault" (an exception left it)
    resultDirs,     \* per task directory: the judgement of testing_result.json
                    \* ("missing": no such file) and of db_interaction_result.json
                    \* ("absent": no such file)
    tasksLeft,      \* the task directories the loop has not reached, in
                    \* os.listdir order
    db_weight,      \* the local db_weight: -1 while unbound, then 0 or 1
    score,          \* the local score
    db_score,       \* the local db_score
    accObs,         \* the last task the loop went through and what it added
    \* ---- UI accuracy (eval_tddev/compute_acc.py) ----
    caPc,           \* compute_acc: "idle", "loop" (in the loop over the task
                    \* directories), "done", "fault" (an exception left it)
    caNext,         \* the task of the dataset the loop comes to next
    categories,     \* the local categories: per category its counters
    caCount,        \* the locals total, score, yes_num, partial_num, no_num
    caReport,       \* what the table reports for the whole run
    \* ---- database grading (eval_webgen-agent/eval_db.py) ----
    gradePc,        \* per (sample, data structure) pair, its grade_sample call:
                    \* "idle", "submitted", "loop", "returned", "raised"
    gradeTry,       \* per pair: the model attempts made so far
    gradeLocals,    \* per pair: the locals coverage, llm_resp and answer
    gradeFiles,     \* per pair: whether db_dump.json exists, and the content of
                    \* db_grade_<n>.json
    \* ---- several watchers on one server log (db_watcher.py, eval_backend.py) ----
    pgFiles,        \* the CSV logs of the server's log directory, oldest first;
                    \* a row has a kind and the test case whose request caused
                    \* it (0: none)
    pgWatch,        \* per DBWatcher instance: whether the test case holding it
                    \* runs, its _ckpt, the rows that existed at its last
                    \* set_ckpt and at its last call, and the rows its
                    \* get_new_entries calls returned since, in order
    pgCalls         \* the set_ckpt / get_new_entries calls made so far

agentVars == <<agent, max_iterations, resumeLogs, replayed, pc, history, validation_num, is_frontend,
               step_idx, result, marker, sent, stepHist, cmpLog, lastStep, phases,
               summary, testing_result>>
bashVars == <<status, sentinel, pane, shell, outstanding, calls, obs>>
dbVars == <<logDir, rows, ckpt, dbObs>>
toolVars == <<tools, toolObs, toolCalls>>
batchVars == <<driver, ledger, pending, batchPc, runNo, invoked, artifact, succeeded,
               errorTrace, batchObs>>
coreVars == <<agentVars, bashVars, dbVars, toolVars>>
tddevVars == <<tdPc, tdPending, tdRuns, sandboxUp, clientUp, zips, last_zip_log, zipFrom, tdObs>>
sandboxVars == <<stopObs, startObs>>
composeVars == <<projects>>
editVars == <<fileExists, file, editObs>>
readVars == <<readText, readLimit, pages, readObs>>
accVars == <<accPc, resultDirs, tasksLeft, db_weight, score, db_score, accObs>>
caVars == <<caPc, caNext, categories, caCount, caReport>>
runVars == <<batchVars, tddevVars, sandboxVars, composeVars, editVars, readVars,
             accVars>>
gradeVars == <<gradePc, gradeTry, gradeLocals, gradeFiles>>
pgVars == <<pgFiles, pgWatch, pgCalls>>
evalVars == <<caVars, gradeVars, pgVars>>
harnessVars == <<batchVars, tddevVars, sandboxVars, composeVars, editVars, readVars,
                 accVars, evalVars>>
vars == <<coreVars, harnessVars>>
notAgentVars == <<bashVars, dbVars, toolVars, harnessVars>>
notBashVars == <<agentVars, dbVars, toolVars, harnessVars>>
notDbVars == <<agentVars, bashVars, toolVars, harnessVars>>
notToolVars == <<agentVars, bashVars, dbVars, harnessVars>>
notBatchVars == <<coreVars, tddevVars, sandboxVars, composeVars, editVars, readVars,
    accVars, evalVars>>
notTddevVars == <<coreVars, batchVars, sandboxVars, composeVars, editVars, readVars,
    accVars, evalVars>>
notSandboxVars == <<coreVars, batchVars, tddevVars, composeVars, editVars, readVars,
    accVars, evalVars>>
notComposeVars == <<coreVars, batchVars, tddevVars, sandboxVars, editVars, readVars,
    accVars, evalVars>>
notEditVars == <<coreVars, batchVars, tddevVars, sandboxVars, composeVars, readVars,
    accVars, evalVars>>
notReadVars == <<coreVars, batchVars, tddevVars, sandboxVars, composeVars, editVars,
    accVars, evalVars>>
notAccVars == <<coreVars, batchVars, tddevVars, sandboxVars, composeVars, editVars,
    readVars, evalVars>>
notCaVars == <<coreVars, runVars, gradeVars, pgVars>>
notGradeVars == <<coreVars, runVars, caVars, pgVars>>
notPgVars == <<coreVars, runVars, caVars, gradeVars>>

-----------------------------------------------------------------------------
(* Bounds of the model and configuration values.                           *)

MaxHistoryLength == 2      \* config.max_history_length
MaxIterations == 3         \* config.max_iterations
MaxValidationNum == 1      \* config.max_validation_num
MaxSummaryRetry == 1       \* config.max_summary_retry
MaxToolCalls == 2          \* tool calls in one assistant message
RatioNum == 1              \* compression_ratio = RatioNum / RatioDen
RatioDen == 2
MaxCalls == 3              \* execute() calls on one terminal session
MaxLogs == 2               \* steps of an earlier run that left logs in log_dir
MaxRows == 3               \* rows the server writes to its CSV log
MaxToolExecs == 3          \* execute_tool calls on one registry
NumSamples == 3            \* samples of the corpus a batch runner is run on
MaxRuns == 3               \* runs of a batch runner on one corpus
NumRoots == 2              \* run / log roots under which a corpus is processed
ConcurrentRuns == 2        \* runs whose compose projects exist at the same time
MaxFileLen == 3            \* characters of the file the file tools work on
MaxLimit == 2              \* the limit passed to read_file
MaxReads == 4              \* read_file calls of one walk through a file
NumTasks == 2              \* task directories under results_backend
NumWatchers == 2           \* DBWatcher instances on one database directory
MaxPgRows == 3             \* rows the server writes to the logs they watch
MaxPgFiles == 2            \* CSV logs the server creates in that directory
MaxWatcherCalls == 4       \* set_ckpt / get_new_entries calls of all of them
NumPairs == 2              \* (sample, data structure) pairs eval_db grades
NumUiTasks == 10           \* UI test cases of the dataset compute_acc reads
TasksPerSample == 5        \* UI test cases of one sample of that dataset
HashSpace == 101           \* values of _hash_name: 16^12 in the code, here more
                           \* than the names of the model

-----------------------------------------------------------------------------
(* Messages.  role as in the chat protocol; kind tells the prompts apart;  *)
(* uid identifies an assistant message (the step that produced it); for an *)
(* assistant message n is the number of tool calls it carries, for a tool  *)
(* message uid is the uid of the assistant message whose call it answers   *)
(* and n the index of that call (the tool_call_id).                        *)

Msg(role, kind, uid, n) == [role |-> role, kind |-> kind, uid |-> uid, n |-> n]

SeedHistory ==
    << Msg("system", "system_prompt", 0, 0),
       Msg("assistant", "ack", 0, 0),
       Msg("user", "instruction", 0, 0) >>

ValidationPrompt == Msg("user", "validation_nudge", 0, 0)
SummaryPrompt == Msg("user", "summary_nudge", 0, 0)
FrontendPrompt == Msg("user", "frontend_instruction", 0, 0)
TestingPrompt == Msg("user", "testing_prompt", 0, 0)
JudgingPrompt == Msg("user", "judging_prompt", 0, 0)
CompressedMessage == Msg("system", "compressed_history", 0, 0)

HasToolCalls(m) == m.role = "assistant" /\ m.n > 0

Last(s) == s[Len(s)]

Min(a, b) == IF a < b THEN a ELSE b

-----------------------------------------------------------------------------
(* _compress_history                                                       *)

RECURSIVE ToolRunEnd(_, _)
\* the index of the last message of the run of tool messages that follows i
ToolRunEnd(h, i) ==
    IF i + 1 <= Len(h) /\ h[i + 1].role = "tool" THEN ToolRunEnd(h, i + 1) ELSE i

RECURSIVE GroupFrom(_, _)
\* the while loop that builds grouped_history, entered with index i
GroupFrom(h, i) ==
    IF i > Len(h) THEN <<>>
    ELSE IF HasToolCalls(h[i])
         THEN LET j == ToolRunEnd(h, i)
              IN  <<SubSeq(h, i, j)>> \o GroupFrom(h, j + 1)
         ELSE <<SubSeq(h, i, i)>> \o GroupFrom(h, i + 1)

\* a grouping that does not glue tool responses to their assistant message
GroupHistoryUnglued(h) == [i \in 1..(Len(h) - 3) |-> <<h[i + 3]>>]

\* grouped_history: the grouping starts at index 3 (0-based)
GroupHistory(h) == GroupFrom(h, 4)

RECURSIVE Flatten(_)
Flatten(groups) ==
    IF groups = <<>> THEN <<>> ELSE Head(groups) \o Flatten(Tail(groups))

\* a prefix that keeps one entry too few
InitialContextShort(h) == SubSeq(h, 1, Min(2, Len(h)))

\* self.history[:3]
InitialContext(h) == SubSeq(h, 1, Min(3, Len(h)))

\* int(len(grouped_history) * compression_ratio)
CompressionThreshold(n) == (n * RatioNum) \div RatioDen

\* grouped_history[:-t]
DropLast(g, t) == IF t >= Len(g) THEN <<>> ELSE SubSeq(g, 1, Len(g) - t)

\* grouped_history[-t:]  (for t = 0 Python's [-0:] is the whole list)
TakeLast(g, t) == IF t = 0 \/ t >= Len(g) THEN g ELSE SubSeq(g, Len(g) - t + 1, Len(g))

\* _compress_history(force): the new history and the path taken.  llmOk tells
\* whether the compression call to llm_generation returns or raises.
CompressHistory(h, force, llmOk) ==
    IF ~(Len(h) > MaxHistoryLength \/ force)
    THEN [hist |-> h, path |-> "skip"]
    ELSE LET grouped == GroupHistory(h)
             t == CompressionThreshold(Len(grouped))
             compressed == IF t > 0 THEN Flatten(DropLast(grouped, t)) ELSE Flatten(grouped)
             remaining == IF t > 0 THEN Flatten(TakeLast(grouped, t)) ELSE <<>>
         IN  IF Len(grouped) <= MaxHistoryLength /\ ~force
             THEN [hist |-> h, path |-> "within"]
             ELSE IF compressed = <<>>
             THEN [hist |-> InitialContext(h) \o remaining, path |-> "trim"]
             ELSE IF llmOk
             THEN [hist |-> InitialContext(h) \o <<CompressedMessage>> \o remaining,
                   path |-> "llm"]
             ELSE [hist |-> InitialContext(h) \o Flatten(TakeLast(grouped, t)),
                   path |-> "fallback"]

CmpEntry(before, c) == [before |-> before, after |-> c.hist, path |-> c.path]

-----------------------------------------------------------------------------
(* step                                                                    *)

\* what the model and the tools do in one step:
\*   resp    "llm_fault": llm_generation raises; "text" / "summary": an assistant
\*           message without tool calls whose text does not / does begin with
\*           "Summary:"; "tools": an assistant message with n tool calls
\*   fail    0: no fault in the tool loop; k > 0: a fault escapes the tool loop
\*           while call k is handled (compress_output raising, a missing key),
\*           after the results of calls 1..k-1 were appended; the model lets
\*           the last call of the message be the one that faults
\*   tooLong the fault's text holds "Please reduce the length of the messages ..."
StepOutcomes ==
    [resp : {"llm_fault"}, n : {0}, fail : {0}, tooLong : BOOLEAN]
    \cup [resp : {"text", "summary"}, n : {0}, fail : {0}, tooLong : {FALSE}]
    \cup {o \in [resp : {"tools"}, n : 1..MaxToolCalls, fail : 0..MaxToolCalls,
                 tooLong : BOOLEAN] :
            /\ o.fail \in {0, o.n}
            /\ (o.fail = 0 => ~o.tooLong)}

\* the tool messages appended for the calls 1..k of assistant message uid
ToolResponses(uid, k) == [i \in 1..k |-> Msg("tool", "tool_response", uid, i)]

\* the except branch of step: forced compression on a too-long fault
StepError(h, tooLong, llmOk) ==
    IF tooLong
    THEN LET c == CompressHistory(h, TRUE, llmOk)
         IN  [hist |-> c.hist, type |-> "error", cmps |-> <<CmpEntry(h, c)>>]
    ELSE [hist |-> h, type |-> "error", cmps |-> <<>>]

\* a summary check that looks one message further back
NoToolCallsLookBack(h, resp) ==
    IF resp = "summary"
    THEN IF h[Len(h) - 2].role = "user"
         THEN [hist |-> h, type |-> "finished", cmps |-> <<>>]
         ELSE [hist |-> SubSeq(h, 1, Len(h) - 1), type |-> "to_be_continued", cmps |-> <<>>]
    ELSE [hist |-> h, type |-> "to_be_continued", cmps |-> <<>>]

\* the branch of WebGenAgent2V1.step taken when the response has no tool calls;
\* h is the history with the response appended
NoToolCalls(h, resp) ==
    IF resp = "summary"
    THEN IF h[Len(h) - 1].role = "user"
         THEN [hist |-> h, type |-> "finished", cmps |-> <<>>]
         ELSE [hist |-> SubSeq(h, 1, Len(h) - 1), type |-> "to_be_continued", cmps |-> <<>>]
    ELSE [hist |-> h, type |-> "to_be_continued", cmps |-> <<>>]

\* the branch of BackendTestingAgent.step taken when the response has no tool calls
BackendNoToolCalls(h, resp) == [hist |-> h, type |-> "finished", cmps |-> <<>>]

\* the tool loop of step; h is the history with the response (uid, n calls) appended
ToolLoop(h, uid, o, llmOk) ==
    IF o.fail = 0
    THEN [hist |-> h \o ToolResponses(uid, o.n), type |-> "success", cmps |-> <<>>]
    ELSE StepError(h \o ToolResponses(uid, o.fail - 1), o.tooLong, llmOk)

\* step(step_idx) of either agent on history h: the compression at its start, the
\* model call on the compressed history, and what follows the response.
\* ok1, ok2: whether the compression calls (at the start, forced) return.
Step(a, h, uid, o, ok1, ok2) ==
    LET c1 == CompressHistory(h, FALSE, ok1)
        h1 == c1.hist
        r  == IF o.resp = "llm_fault" THEN StepError(h1, o.tooLong, ok2)
              ELSE IF o.resp = "tools"
                   THEN ToolLoop(Append(h1, Msg("assistant", "tool_calls", uid, o.n)),
                                 uid, o, ok2)
              ELSE IF a = "webgen"
                   THEN NoToolCalls(Append(h1, Msg("assistant", o.resp, uid, 0)), o.resp)
                   ELSE BackendNoToolCalls(Append(h1, Msg("assistant", o.resp, uid, 0)),
                                           o.resp)
    IN  [hist |-> r.hist, type |-> r.type, sent |-> h1,
         cmps |-> <<CmpEntry(h, c1)>> \o r.cmps]

-----------------------------------------------------------------------------
(* initialize_agent: resuming from the step logs of an earlier run         *)

Call(name, fails) == [name |-> name, fails |-> fails]

\* state_affecting_tools of _restore_environment_state
StateAffectingTools(a) ==
    IF a = "webgen" THEN {"write_file", "replace", "run_shell_command"}
    ELSE {"backend_test"}

\* tool-call histories an earlier run may have held; fails: executing the call
\* again raises
ToolCallHistories(a) ==
    IF a = "webgen"
    THEN { <<Call("write_file", FALSE)>>,
           <<Call("replace", TRUE), Call("run_shell_command", FALSE)>>,
           <<Call("read_file", FALSE), Call("write_file", TRUE)>> }
    ELSE { <<Call("backend_test", FALSE)>>,
           <<Call("backend_test", TRUE), Call("backend_test", FALSE)>>,
           <<Call("read_file", FALSE), Call("backend_test", TRUE)>> }

\* a step of the earlier run whose log file is missing or is not valid JSON
UnparsableLog == [parses |-> FALSE, v |-> 0, fe |-> FALSE, calls |-> <<>>]

\* what is known of a logged step: whether the file initialize_agent opens for it
\* loads, and the counter, flag and tool-call history the agent held at that step
LogEntries(a) ==
    {UnparsableLog}
    \cup [parses : {TRUE},
          v : IF a = "webgen" THEN 0..MaxValidationNum ELSE {0},
          fe : IF a = "webgen" THEN BOOLEAN ELSE {FALSE},
          calls : ToolCallHistories(a)]

RECURSIVE LogSeqs(_, _)
LogSeqs(a, n) ==
    IF n = 0 THEN {<<>>}
    ELSE {Append(l, e) : l \in LogSeqs(a, n - 1), e \in LogEntries(a)}

ResumeLogs(a) == UNION {LogSeqs(a, n) : n \in 0..MaxLogs}

\* the assistant message and tool result of step k of the earlier run
StepGroup(k) ==
    << Msg("assistant", "tool_calls", k + 1, 1), Msg("tool", "tool_response", k + 1, 1) >>

\* the groups of the steps 0..k-1
RECURSIVE LoggedGroups(_)
LoggedGroups(k) == IF k = 0 THEN <<>> ELSE LoggedGroups(k - 1) \o StepGroup(k - 1)

\* The parsed content of the file initialize_agent opens for step k.
\* WebGenAgent2V1 opens {k}_llm_response.json: step wrote it with the messages
\* sent, the response object, no tool-call history (null) and a request without
\* validation_num / is_frontend.  BackendTestingAgent opens {k}_tool_response.json:
\* the messages with the response appended, the list of tool messages and the
\* tool-call history.
LogFile(a, base, k, e) ==
    IF a = "webgen"
    THEN [messages |-> base \o LoggedGroups(k),
          response |-> <<StepGroup(k)[1]>>, responseIsList |-> FALSE,
          tool_call_history |-> <<>>, toolCallHistoryNull |-> TRUE,
          hasCounters |-> FALSE, validation_num |-> 0, is_frontend |-> FALSE]
    ELSE [messages |-> base \o LoggedGroups(k) \o <<StepGroup(k)[1]>>,
          response |-> <<StepGroup(k)[2]>>, responseIsList |-> TRUE,
          tool_call_history |-> e.calls, toolCallHistoryNull |-> FALSE,
          hasCounters |-> FALSE, validation_num |-> 0, is_frontend |-> FALSE]

\* _restore_environment_state: every state-affecting call is executed in recorded
\* order; one that raises is logged and the loop goes on
RestoreEnvironmentState(a, tool_call_history) ==
    SelectSeq(tool_call_history, LAMBDA c : c.name \in StateAffectingTools(a))

ResumeFault == [outcome |-> "fault", hist |-> <<>>, start |-> 0, replayed |-> <<>>,
                v |-> 0, fe |-> FALSE]

\* the body of the try block for a file f of step k that loaded: messages + response
\* raises TypeError unless the response is a list, and len() of a null tool-call
\* history raises TypeError; neither is caught
LoadLog(a, f, k) ==
    IF ~f.responseIsList THEN ResumeFault
    ELSE IF f.toolCallHistoryNull THEN ResumeFault
    ELSE [outcome |-> "loaded", hist |-> f.messages \o f.response, start |-> k + 1,
          replayed |-> RestoreEnvironmentState(a, f.tool_call_history),
          v |-> IF f.hasCounters THEN f.validation_num ELSE 0,
          fe |-> IF f.hasCounters THEN f.is_frontend ELSE FALSE]

\* the loop over the step numbers in descending order; n logs are left to try
RECURSIVE TryLogs(_, _, _, _)
TryLogs(a, base, logs, n) ==
    IF n = 0
    THEN [outcome |-> "clean", hist |-> <<>>, start |-> 0, replayed |-> <<>>,
          v |-> 0, fe |-> FALSE]
    ELSE IF ~logs[n].parses THEN TryLogs(a, base, logs, n - 1)
    ELSE LoadLog(a, LogFile(a, base, n - 1, logs[n]), n - 1)

-----------------------------------------------------------------------------
(* run / run_agent                                                         *)

\* the history-bearing part of an InfoGatheringAgent's result file
InfoHistories ==
    { SeedHistory \o << Msg("assistant", "tool_calls", 0, 1),
                        Msg("tool", "tool_response", 0, 1) >> }

NoStep == [type |-> "none", resp |-> "none", frontend |-> FALSE]

\* no execute() call made yet
NoObs ==
    [kind |-> "none", text |-> "none", isInput |-> FALSE, sid |-> 0, content |-> <<>>,
     sentToPane |-> FALSE, prevStatus |-> "COMPLETE", prevSentinel |-> 0,
     prevText |-> "none", wasOutstanding |-> FALSE, fresh |-> FALSE]

\* BashSession.__init__
BashIdle ==
    /\ status = "COMPLETE"
    /\ sentinel = 0
    /\ pane = <<>>
    /\ shell = <<>>
    /\ outstanding = FALSE
    /\ calls = 0
    /\ obs = NoObs

NoText == <<"none">>

\* the text of an assistant message, line by line, as extract_final_judgement
\* sees it: "YES" / "NO" a line matching Final Judgement: YES / NO, "other"
\* any other line
JudgeTexts ==
    { <<>>, <<"other">>, <<"YES">>, <<"other", "NO">>, <<"NO", "YES">> }

NoTestingResult == [written |-> FALSE, summary |-> NoText, judgement |-> "none"]

\* no DBWatcher call made yet
NoDbObs == [op |-> "none", dir |-> "absent", ret |-> <<>>, fault |-> FALSE,
            prevCkpt |-> -1, len |-> 0, prevLen |-> 0, prevOp |-> "none"]

\* DBWatcher.__init__, on a data directory the server has not logged to yet
DbIdle ==
    /\ logDir = "absent"
    /\ rows = <<>>
    /\ ckpt = -1
    /\ dbObs = NoDbObs

\* no execute_tool call made yet
NoToolObs == [name |-> "none", validate |-> "none", execute |-> "none",
              outcome |-> "none"]

\* ToolRegistry.__init__
ToolsIdle ==
    /\ tools = {}
    /\ toolObs = NoToolObs
    /\ toolCalls = 0

\* the samples of the corpus, by position; a sample's id is its position
Samples == 1..NumSamples

\* no loop iteration made yet
NoBatchObs == [id |-> 0, outcome |-> "none", events |-> <<>>, run |-> 0]

\* a corpus no runner was run on: no ledger file, no workspace written
BatchIdle ==
    /\ driver = "none"
    /\ ledger = <<>>
    /\ pending = <<>>
    /\ batchPc = "idle"
    /\ runNo = 0
    /\ invoked = [s \in Samples |-> 0]
    /\ artifact = [s \in Samples |-> 0]
    /\ succeeded = {}
    /\ errorTrace = {}
    /\ batchObs = NoBatchObs

\* no sample reached yet
NoTdObs == [id |-> 0, events |-> <<>>]

\* the TDDev runner before its first run: no archive, nothing started
TddevIdle ==
    /\ tdPc = "idle"
    /\ tdPending = <<>>
    /\ tdRuns = 0
    /\ sandboxUp = {}
    /\ clientUp = FALSE
    /\ zips = {}
    /\ last_zip_log = 0
    /\ zipFrom = [s \in 1..NumSamples |-> 0]
    /\ tdObs = NoTdObs

\* no stop_docker_containers / start_docker_containers call made yet
NoSandboxObs == [outcomes |-> <<>>, commands |-> <<>>, ret |-> "none", logged |-> FALSE,
                 sleeps |-> 0]

\* no sandbox call made, no compose file written
SandboxIdle ==
    /\ stopObs = NoSandboxObs
    /\ startObs = NoSandboxObs
    /\ projects = {}

\* no replace call made yet
NoEditObs == [old |-> <<>>, new |-> <<>>, expected |-> 0, existed |-> FALSE,
              before |-> <<>>, type |-> "none"]

\* a working directory without the file
EditIdle ==
    /\ fileExists = FALSE
    /\ file = <<>>
    /\ editObs = NoEditObs

\* no read_file call made yet
NoReadObs == [offset |-> 0, content |-> <<>>, truncated |-> FALSE, next_offset |-> -1,
              start_line |-> 0, end_line |-> 0, total_lines |-> 0]

\* an empty text file nobody has read
ReadIdle ==
    /\ readText = <<>>
    /\ readLimit = 0
    /\ pages = <<>>
    /\ readObs = NoReadObs

\* the task directories under results_backend
Tasks == 1..NumTasks

\* no task gone through yet
NoAccObs == [task |-> 0, added |-> 0, db_added |-> 0]

\* backend_compute_acc not called, no result written
AccIdle ==
    /\ accPc = "idle"
    /\ resultDirs = [t \in Tasks |-> [judgement |-> "missing", db |-> "absent"]]
    /\ tasksLeft = <<>>
    /\ db_weight = -1
    /\ score = 0
    /\ db_score = 0
    /\ accObs = NoAccObs

\* the two taxonomies of compute_acc
PRIMARY_CATEGORIES == <<"Content Presentation", "User Interaction", "Data Management">>

INST_PRIMARY_CATEGORIES ==
    <<"Functional Testing", "Data Display Testing", "Design Validation Testing">>

\* a fraction in lowest terms; compute_acc's score counts in halves and its
\* accuracy is a quotient, so the model keeps score2 = 2 * score and the
\* accuracy as num / den
RECURSIVE Gcd(_, _)
Gcd(a, b) == IF b = 0 THEN a ELSE Gcd(b, a % b)

Fraction(num, den) ==
    LET g == Gcd(num, den) IN [num |-> num \div g, den |-> den \div g]

\* the counters compute_acc starts every category with
CategoryCounters ==
    [yes_num |-> 0, partial_num |-> 0, no_num |-> 0, start_failed_num |-> 0,
     score2 |-> 0, total |-> 0, accuracy |-> Fraction(0, 1)]

CategoryNames ==
    {PRIMARY_CATEGORIES[i] : i \in 1..3} \cup {INST_PRIMARY_CATEGORIES[i] : i \in 1..3}

\* no table written yet
NoReport ==
    [score2 |-> -1, accuracy |-> Fraction(0, 1), start_failed_num |-> -1,
     total |-> -1, yes_num |-> -1, partial_num |-> -1, no_num |-> -1]

\* compute_acc not called
CaIdle ==
    /\ caPc = "idle"
    /\ caNext = 0
    /\ categories = [c \in CategoryNames |-> CategoryCounters]
    /\ caCount = [total |-> 0, score2 |-> 0, yes_num |-> 0, partial_num |-> 0,
                  no_num |-> 0]
    /\ caReport = NoReport

\* the (sample, data structure) pairs of eval_db's second phase
Pairs == 1..NumPairs

\* the locals of grade_sample before its loop: coverage and llm_resp are
\* not bound yet
UnboundLocals == [coverage |-> "unbound", llm_resp |-> "unbound", answer |-> FALSE]

\* no grade file
NoBlob == [coverage |-> "none", answer |-> FALSE, llm_response |-> "none"]

\* eval_db's second phase not started
GradeIdle ==
    /\ gradePc = [p \in Pairs |-> "idle"]
    /\ gradeTry = [p \in Pairs |-> 0]
    /\ gradeLocals = [p \in Pairs |-> UnboundLocals]
    /\ gradeFiles = [p \in Pairs |-> [dump |-> FALSE, grade |-> NoBlob]]

\* the DBWatcher instances that watch one database directory
Watchers == 1..NumWatchers

\* a watcher just constructed: an empty _ckpt
NewWatcher == [running |-> FALSE, ckpt |-> <<>>, mark |-> {}, seen |-> {}, got |-> <<>>]

\* the server runs and has created its first CSV log; no watcher was used
PgIdle ==
    /\ pgFiles = << <<>> >>
    /\ pgWatch = [w \in Watchers |-> NewWatcher]
    /\ pgCalls = 0

\* the batch runners and the utilities around the agents, not in use
HarnessIdle ==
    /\ CaIdle
    /\ PgIdle
    /\ GradeIdle
    /\ BatchIdle
    /\ TddevIdle
    /\ SandboxIdle
    /\ EditIdle
    /\ ReadIdle
    /\ AccIdle

\* an agent that has not been constructed
AgentFresh(iterations) ==
    /\ agent = "webgen"
    /\ max_iterations = iterations
    /\ resumeLogs = <<>>
    /\ replayed = <<>>
    /\ pc = "init"
    /\ history = <<>>
    /\ validation_num = 0
    /\ is_frontend = FALSE
    /\ step_idx = 0
    /\ result = "none"
    /\ marker = FALSE
    /\ sent = <<>>
    /\ stepHist = <<>>
    /\ cmpLog = <<>>
    /\ lastStep = NoStep
    /\ phases = <<>>
    /\ summary = NoText
    /\ testing_result = NoTestingResult

AgentIdle == AgentFresh(MaxIterations)

AgentInit ==
    /\ BashIdle
    /\ DbIdle
    /\ ToolsIdle
    /\ HarnessIdle
    /\ agent \in {"webgen", "backend"}
    /\ max_iterations = MaxIterations
    /\ resumeLogs \in ResumeLogs(agent)
    /\ replayed = <<>>
    /\ summary = NoText
    /\ testing_result = NoTestingResult
    /\ pc = "init"
    /\ history \in (IF agent = "webgen" THEN {<<>>}
                    ELSE {h \o <<TestingPrompt>> : h \in InfoHistories})
    /\ validation_num = 0
    /\ is_frontend = FALSE
    /\ step_idx = 0
    /\ result = "none"
    /\ marker = FALSE
    /\ sent = <<>>
    /\ stepHist = <<>>
    /\ cmpLog = <<>>
    /\ lastStep = NoStep
    /\ phases = <<>>

\* WebGenAgent2V1.initialize_agent.  The step logs are tried from the highest
\* step number down; when none loads the history is seeded and the loop starts at
\* step 0.  The logs are read here only and the model drops them afterwards.
InitializeAgent ==
    /\ pc = "init" /\ agent = "webgen"
    /\ LET r == TryLogs("webgen", SeedHistory, resumeLogs, Len(resumeLogs))
       IN  IF r.outcome = "fault"
           THEN /\ pc' = "fault"
                /\ UNCHANGED <<history, step_idx, replayed, validation_num, is_frontend>>
           ELSE /\ pc' = "loop"
                /\ history' = IF r.outcome = "loaded" THEN r.hist ELSE SeedHistory
                /\ step_idx' = r.start
                /\ replayed' = r.replayed
                /\ IF r.outcome = "loaded"
                   THEN validation_num' = r.v /\ is_frontend' = r.fe
                   ELSE UNCHANGED <<validation_num, is_frontend>>
    /\ resumeLogs' = <<>>
    /\ UNCHANGED <<agent, max_iterations, result, marker, sent, stepHist, cmpLog, lastStep, phases,
                   summary, testing_result>>
    /\ UNCHANGED notAgentVars

\* a nudge that goes on asking for the summary without a limit
NudgeUnbounded(h, v) ==
    IF v < MaxValidationNum THEN [hist |-> Append(h, ValidationPrompt), v |-> v + 1]
    ELSE [hist |-> Append(h, SummaryPrompt), v |-> v + 1]

\* what run_agent appends after a to_be_continued step
Nudge(h, v) ==
    IF v < MaxValidationNum THEN [hist |-> Append(h, ValidationPrompt), v |-> v + 1]
    ELSE IF v < MaxValidationNum + MaxSummaryRetry
         THEN [hist |-> Append(h, SummaryPrompt), v |-> v + 1]
         ELSE [hist |-> h, v |-> v]

\* a finished handler that succeeds in any phase
OnFinishedAnyPhase(h, v, fe) == [ret |-> TRUE, hist |-> h, v |-> v, fe |-> fe]

\* what run_agent does with a finished step: [ret, hist, v, fe]
OnFinished(h, v, fe) ==
    IF fe
    THEN [ret |-> TRUE, hist |-> h, v |-> v, fe |-> fe]
    ELSE [ret |-> FALSE, hist |-> Append(h, FrontendPrompt), v |-> 0, fe |-> TRUE]

\* one iteration of the for loop of WebGenAgent2V1.run_agent
RunAgentStep ==
    /\ pc = "loop" /\ agent = "webgen" /\ step_idx < max_iterations
    /\ \E o \in StepOutcomes, ok1 \in BOOLEAN, ok2 \in BOOLEAN :
         LET s == Step("webgen", history, step_idx + 1, o, ok1, ok2)
             nd == Nudge(s.hist, validation_num)
             fin == OnFinished(s.hist, validation_num, is_frontend)
         IN  /\ sent' = s.sent
             /\ stepHist' = s.hist
             /\ cmpLog' = s.cmps
             /\ lastStep' = [type |-> s.type, resp |-> o.resp, frontend |-> is_frontend]
             /\ IF s.type = "to_be_continued"
                THEN /\ history' = nd.hist
                     /\ validation_num' = nd.v
                     /\ UNCHANGED <<is_frontend, result, pc, phases>>
                ELSE IF s.type = "finished"
                THEN /\ history' = fin.hist
                     /\ validation_num' = fin.v
                     /\ is_frontend' = fin.fe
                     /\ phases' = Append(phases, IF is_frontend THEN "frontend" ELSE "backend")
                     /\ result' = IF fin.ret THEN "true" ELSE result
                     /\ pc' = IF fin.ret THEN "returned" ELSE pc
                ELSE /\ history' = s.hist
                     /\ UNCHANGED <<validation_num, is_frontend, result, pc, phases>>
    /\ step_idx' = step_idx + 1
    /\ UNCHANGED <<agent, max_iterations, resumeLogs, marker>>
    /\ UNCHANGED <<replayed, summary, testing_result>>
    /\ UNCHANGED notAgentVars

\* the for loop of WebGenAgent2V1.run_agent is exhausted: return False
RunAgentExhausted ==
    /\ pc = "loop" /\ agent = "webgen" /\ step_idx >= max_iterations
    /\ result' = "false"
    /\ pc' = "returned"
    /\ UNCHANGED <<agent, max_iterations, resumeLogs, history, validation_num, is_frontend, step_idx,
                   marker, sent, stepHist, cmpLog, lastStep, phases>>
    /\ UNCHANGED <<replayed, summary, testing_result>>
    /\ UNCHANGED notAgentVars

\* a run that writes the marker whatever run_agent returned
WritesMarkerAlways(ret) == TRUE

\* whether run writes finished.json, given what run_agent returned
WritesMarker(ret) == ret = "true"

\* the tail of WebGenAgent2V1.run
RunFinish ==
    /\ pc = "returned" /\ agent = "webgen"
    /\ marker' = (marker \/ WritesMarker(result))
    /\ pc' = "done"
    /\ UNCHANGED <<agent, max_iterations, resumeLogs, history, validation_num, is_frontend, step_idx,
                   result, sent, stepHist, cmpLog, lastStep, phases>>
    /\ UNCHANGED <<replayed, summary, testing_result>>
    /\ UNCHANGED notAgentVars

\* BackendTestingAgent.initialize_agent: as above, from {step}_tool_response.json;
\* when no log loads the history built by __init__ stays
BackendInitializeAgent ==
    /\ pc = "init" /\ agent = "backend"
    /\ LET r == TryLogs("backend", history, resumeLogs, Len(resumeLogs))
       IN  IF r.outcome = "fault"
           THEN /\ pc' = "fault"
                /\ UNCHANGED <<history, step_idx, replayed>>
           ELSE /\ pc' = "loop"
                /\ history' = IF r.outcome = "loaded" THEN r.hist ELSE history
                /\ step_idx' = r.start
                /\ replayed' = r.replayed
    /\ resumeLogs' = <<>>
    /\ UNCHANGED <<agent, max_iterations, validation_num, is_frontend, result, marker, sent, stepHist,
                   cmpLog, lastStep, phases, summary, testing_result>>
    /\ UNCHANGED notAgentVars

\* one iteration of the for loop of BackendTestingAgent.run_agent
BackendRunAgentStep ==
    /\ pc = "loop" /\ agent = "backend" /\ step_idx < max_iterations
    /\ \E o \in StepOutcomes, ok1 \in BOOLEAN, ok2 \in BOOLEAN :
         LET s == Step("backend", history, step_idx + 1, o, ok1, ok2)
         IN  /\ o.resp # "summary"
             /\ sent' = s.sent
             /\ stepHist' = s.hist
             /\ cmpLog' = s.cmps
             /\ lastStep' = [type |-> s.type, resp |-> o.resp, frontend |-> FALSE]
             /\ history' = s.hist
             /\ result' = IF s.type = "finished" THEN "finished" ELSE result
             /\ pc' = IF s.type = "finished" THEN "returned" ELSE pc
             /\ IF s.type = "finished"
                THEN \E text \in JudgeTexts : summary' = text
                ELSE UNCHANGED summary
    /\ step_idx' = step_idx + 1
    /\ UNCHANGED <<agent, max_iterations, resumeLogs, replayed, validation_num, is_frontend, marker,
                   phases, testing_result>>
    /\ UNCHANGED notAgentVars

\* the for loop of BackendTestingAgent.run_agent is exhausted
BackendRunAgentExhausted ==
    /\ pc = "loop" /\ agent = "backend" /\ step_idx >= max_iterations
    /\ result' = "max_iterations_reached"
    /\ pc' = "returned"
    /\ UNCHANGED <<agent, max_iterations, resumeLogs, replayed, history, validation_num, is_frontend,
                   step_idx, marker, sent, stepHist, cmpLog, lastStep, phases, summary,
                   testing_result>>
    /\ UNCHANGED notAgentVars

\* a scan that reports YES when the pattern is absent
ExtractFinalJudgementYes(text) ==
    LET hits == SelectSeq(text, LAMBDA l : l \in {"YES", "NO"})
    IN  IF hits = <<>> THEN "YES" ELSE hits[1]

\* extract_final_judgement: the verdict of the first line that matches
\* Final\s*Judgement:\s*(YES|NO), and NO when no line matches
ExtractFinalJudgement(text) ==
    LET hits == SelectSeq(text, LAMBDA l : l \in {"YES", "NO"})
    IN  IF hits = <<>> THEN "NO" ELSE hits[1]

\* the tail of BackendTestingAgent.run: after a finished step the summary of that
\* step is scanned; after an exhausted loop the judging prompt is appended and
\* llm_generation called once more, outside any try block, and its text scanned.
\* testing_result.json is written last.
BackendRunFinish ==
    /\ pc = "returned" /\ agent = "backend"
    /\ IF result = "finished"
       THEN /\ testing_result' = [written |-> TRUE, summary |-> summary,
                                  judgement |-> ExtractFinalJudgement(summary)]
            /\ pc' = "done"
            /\ UNCHANGED <<history, summary, sent>>
       ELSE \/ /\ history' = Append(history, JudgingPrompt)
               /\ sent' = history'
               /\ pc' = "fault"
               /\ UNCHANGED <<summary, testing_result>>
            \/ \E text \in JudgeTexts :
                  /\ sent' = Append(history, JudgingPrompt)
                  /\ history' = history \o <<JudgingPrompt, Msg("assistant", "text", step_idx + 1, 0)>>
                  /\ summary' = text
                  /\ testing_result' = [written |-> TRUE, summary |-> text,
                                        judgement |-> ExtractFinalJudgement(text)]
                  /\ pc' = "done"
    /\ UNCHANGED <<agent, max_iterations, resumeLogs, replayed, validation_num, is_frontend, step_idx,
                   result, marker, stepHist, cmpLog, lastStep, phases>>
    /\ UNCHANGED notAgentVars

AgentNext ==
    \/ InitializeAgent
    \/ RunAgentStep
    \/ RunAgentExhausted
    \/ RunFinish
    \/ BackendInitializeAgent
    \/ BackendRunAgentStep
    \/ BackendRunAgentExhausted
    \/ BackendRunFinish

SpecAgent == AgentInit /\ [][AgentNext]_vars

\* a fresh run of WebGenAgent2V1 that is configured with one iteration more,
\* so that steps follow the last nudge of a phase
LongRunInit ==
    /\ AgentFresh(MaxIterations + 1)
    /\ BashIdle
    /\ DbIdle
    /\ ToolsIdle
    /\ HarnessIdle

LongRunNext ==
    \/ InitializeAgent
    \/ RunAgentStep
    \/ RunAgentExhausted
    \/ RunFinish

SpecAgentLong == LongRunInit /\ [][LongRunNext]_vars

-----------------------------------------------------------------------------
(* BashSession: the pane and the shell behind it                           *)

\* What capture-pane shows is a sequence of tokens:
\*   ECHO id   the echo of the wrapped command line typed for sentinel id (it holds
\*             the text ###START-id### and the text ###DONE-id-$?###, which DONE_RE
\*             does not match)
\*   START id  the line ###START-id### printed by the wrapper's first printf
\*   OUT id    output of the command (id 0: of text sent without a wrapper)
\*   DONE id   the line ###DONE-id-<code>### printed by the wrapper's last printf
Tok(t, id) == [t |-> t, id |-> id]

\* the shell holds the wrapped command lines typed and not finished, oldest first
Job(id, started) == [id |-> id, started |-> started]

\* one step of the shell: the oldest line starts, or the running command ends
ShellEvent(pn, sh) ==
    IF sh = <<>> THEN [pane |-> pn, shell |-> sh]
    ELSE IF ~Head(sh).started
         THEN [pane |-> Append(pn, Tok("START", Head(sh).id)),
               shell |-> <<Job(Head(sh).id, TRUE)>> \o Tail(sh)]
         ELSE [pane |-> pn \o <<Tok("OUT", Head(sh).id), Tok("DONE", Head(sh).id)>>,
               shell |-> Tail(sh)]

RECURSIVE ShellRun(_, _, _)
\* k steps of the shell
ShellRun(pn, sh, k) ==
    IF k = 0 THEN [pane |-> pn, shell |-> sh]
    ELSE LET e == ShellEvent(pn, sh) IN ShellRun(e.pane, e.shell, k - 1)

\* the wrapped line of sentinel sid is typed: the pane echoes it, and a shell that
\* runs nothing starts it at once
TypeWrapped(pn, sh, sid) ==
    IF sh = <<>>
    THEN [pane |-> pn \o <<Tok("ECHO", sid), Tok("START", sid)>>,
          shell |-> <<Job(sid, TRUE)>>]
    ELSE [pane |-> Append(pn, Tok("ECHO", sid)), shell |-> Append(sh, Job(sid, FALSE))]

\* buf.rfind(self._start_tag): the last token holding ###START-sid###, 0 if none
StartPos(buf, sid) ==
    LET hits == {i \in 1..Len(buf) : buf[i].t \in {"ECHO", "START"} /\ buf[i].id = sid}
    IN  IF hits = {} THEN 0 ELSE CHOOSE i \in hits : \A j \in hits : j <= i

\* sliced: the buffer after the START tag, the whole buffer if there is none
Sliced(buf, sid) ==
    IF StartPos(buf, sid) = 0 THEN buf
    ELSE SubSeq(buf, StartPos(buf, sid) + 1, Len(buf))

\* DONE_RE.search(sliced): the first DONE line, 0 if none
FirstDone(sl) ==
    LET hits == {i \in 1..Len(sl) : sl[i].t = "DONE"}
    IN  IF hits = {} THEN 0 ELSE CHOOSE i \in hits : \A j \in hits : i <= j

\* the test that ends the poll loop with _wrap_complete
SeesDone(buf, sid) ==
    /\ StartPos(buf, sid) # 0
    /\ FirstDone(Sliced(buf, sid)) # 0
    /\ Sliced(buf, sid)[FirstDone(Sliced(buf, sid))].id = sid

\* _wrap_complete: buf.rsplit(done_tag + code, 1)[0]
BeforeLastDone(sl, sid) ==
    LET hits == {i \in 1..Len(sl) : sl[i].t = "DONE" /\ sl[i].id = sid}
    IN  IF hits = {} THEN sl
        ELSE SubSeq(sl, 1, (CHOOSE i \in hits : \A j \in hits : j <= i) - 1)

\* an interrupt that leaves the status as it was
InterruptStatusKept(st) == st

\* the status a C-c leaves
InterruptStatus(st) == "COMPLETE"

\* a "waiting" return that marks the session as timed out
WaitingStatusTimedOut(st) == "SOFT_TIMEOUT"

\* the status the "waiting" return leaves (no assignment to self._status)
WaitingStatus(st) == st

\* the guard that rejects a submission while a command runs
RejectsAsRunning(st, isInput) == st = "RUNNING" /\ ~isInput

\* The poll loop of execute on what the pane shows when it returns.  elapsed tells
\* which clock ran out when the DONE line is not seen: the caller's timeout (only
\* if one was given) or the no-change timeout.
Poll(buf, sid, st, blocking, elapsed) ==
    IF SeesDone(buf, sid)
    THEN [kind |-> "complete", status |-> "COMPLETE",
          content |-> BeforeLastDone(Sliced(buf, sid), sid), reset |-> TRUE]
    ELSE IF elapsed = "timeout"
    THEN [kind |-> "hard_timeout", status |-> "HARD_TIMEOUT", content |-> buf,
          reset |-> FALSE]
    ELSE IF ~blocking
    THEN [kind |-> "soft_timeout", status |-> "SOFT_TIMEOUT",
          content |-> Sliced(buf, sid), reset |-> FALSE]
    ELSE [kind |-> "waiting", status |-> WaitingStatus(st),
          content |-> Sliced(buf, sid), reset |-> FALSE]

Texts == {"C-c", "single", "background", "multi"}

Observation(kind, text, isInput, sid, content, sentToPane) ==
    [kind |-> kind, text |-> text, isInput |-> isInput, sid |-> sid,
     content |-> content, sentToPane |-> sentToPane, prevStatus |-> status,
     prevSentinel |-> sentinel, prevText |-> obs.text, wasOutstanding |-> outstanding,
     fresh |-> TRUE]

BashInit ==
    /\ HarnessIdle
    /\ status = "COMPLETE"
    /\ sentinel = 0
    /\ pane = <<>>
    /\ shell = <<>>
    /\ outstanding = FALSE
    /\ calls = 0
    /\ obs = NoObs
    /\ agent = "webgen"
    /\ max_iterations = MaxIterations
    /\ resumeLogs = <<>>
    /\ replayed = <<>>
    /\ summary = NoText
    /\ testing_result = NoTestingResult
    /\ pc = "init"
    /\ history = <<>>
    /\ validation_num = 0
    /\ is_frontend = FALSE
    /\ step_idx = 0
    /\ result = "none"
    /\ marker = FALSE
    /\ sent = <<>>
    /\ stepHist = <<>>
    /\ cmpLog = <<>>
    /\ lastStep = NoStep
    /\ phases = <<>>
    /\ DbIdle
    /\ ToolsIdle

\* execute("C-c"): SIGINT to the running command, capture, reset, COMPLETE
ExecuteInterrupt ==
    /\ calls < MaxCalls
    /\ \E isInput \in BOOLEAN :
          obs' = Observation("interrupted", "C-c", isInput, 0, pane, TRUE)
    /\ shell' = IF shell = <<>> THEN shell ELSE Tail(shell)
    /\ pane' = <<>>
    /\ status' = InterruptStatus(status)
    /\ outstanding' = FALSE
    /\ calls' = calls + 1
    /\ UNCHANGED sentinel
    /\ UNCHANGED notBashVars

\* execute of a submission the safety checks reject: several top-level commands,
\* or a command while the previous one is RUNNING
ExecuteRejected ==
    /\ calls < MaxCalls
    /\ \E text \in {"single", "background", "multi"} :
          /\ text = "multi" \/ RejectsAsRunning(status, FALSE)
          /\ obs' = Observation(IF text = "multi" THEN "error_multiple_commands"
                                ELSE "error_still_running",
                                text, FALSE, 0, <<>>, FALSE)
    /\ calls' = calls + 1
    /\ UNCHANGED <<status, sentinel, pane, shell, outstanding>>
    /\ UNCHANGED notBashVars

\* execute of a command ending in &: sent without a wrapper, COMPLETE at once
ExecuteBackground ==
    /\ calls < MaxCalls
    /\ ~RejectsAsRunning(status, FALSE)
    /\ pane' = Append(pane, Tok("OUT", 0))
    /\ obs' = Observation("background", "background", FALSE, 0, <<Tok("OUT", 0)>>, TRUE)
    /\ status' = "COMPLETE"
    /\ calls' = calls + 1
    /\ UNCHANGED <<sentinel, shell, outstanding>>
    /\ UNCHANGED notBashVars

\* execute of one foreground command: a new sentinel, the wrapped line is typed,
\* RUNNING, then the poll loop; the shell makes k steps until the loop returns
ExecuteForeground ==
    /\ calls < MaxCalls
    /\ ~RejectsAsRunning(status, FALSE)
    /\ \E blocking \in BOOLEAN, elapsed \in {"no_change", "timeout"},
          k \in 0..(2 * Len(shell) + 1) :
          LET sid == calls + 1
              typed == TypeWrapped(pane, shell, sid)
              run == ShellRun(typed.pane, typed.shell, k)
              r == Poll(run.pane, sid, "RUNNING", blocking, elapsed)
          IN  /\ sentinel' = sid
              /\ status' = r.status
              /\ pane' = IF r.reset THEN <<>> ELSE run.pane
              /\ shell' = run.shell
              /\ outstanding' = (r.kind # "complete")
              /\ obs' = Observation(r.kind, "single", FALSE, sid, r.content, TRUE)
    /\ calls' = calls + 1
    /\ UNCHANGED notBashVars

\* an input-send that waits for a sentinel of its own
InputSentinelFresh(sid) == sid + 1

\* the sentinel an input-send waits for: the branch for is_input assigns none,
\* the poll loop reads the tags of the last foreground command
InputSentinel(sid) == sid

\* execute with is_input=True: the text is sent as typed, the status and the
\* sentinel stay as they are, then the poll loop.  With no sentinel set yet the
\* loop's first read of self._start_tag raises AttributeError.
ExecuteInput ==
    /\ calls < MaxCalls
    /\ \E text \in {"single", "background", "multi"}, blocking \in BOOLEAN,
          elapsed \in {"no_change", "timeout"}, k \in 0..(2 * Len(shell)) :
          LET typed == IF shell = <<>> THEN Append(pane, Tok("OUT", 0)) ELSE pane
              run == ShellRun(typed, shell, k)
              r == Poll(run.pane, InputSentinel(sentinel), status, blocking, elapsed)
          IN  IF sentinel = 0
              THEN /\ obs' = Observation("fault", text, TRUE, 0, <<>>, TRUE)
                   /\ pane' = run.pane
                   /\ shell' = run.shell
                   /\ UNCHANGED <<status, outstanding>>
              ELSE /\ obs' = Observation(r.kind, text, TRUE, sentinel, r.content, TRUE)
                   /\ status' = r.status
                   /\ pane' = IF r.reset THEN <<>> ELSE run.pane
                   /\ shell' = run.shell
                   /\ outstanding' = (outstanding /\ r.kind # "complete")
    /\ calls' = calls + 1
    /\ UNCHANGED sentinel
    /\ UNCHANGED notBashVars

\* between two execute calls the shell goes on running what was typed
ShellProgress ==
    /\ shell # <<>>
    /\ pane' = ShellEvent(pane, shell).pane
    /\ shell' = ShellEvent(pane, shell).shell
    /\ obs' = [obs EXCEPT !.fresh = FALSE]
    /\ UNCHANGED <<status, sentinel, outstanding, calls>>
    /\ UNCHANGED notBashVars

BashNext ==
    \/ ExecuteInterrupt
    \/ ExecuteRejected
    \/ ExecuteBackground
    \/ ExecuteForeground
    \/ ExecuteInput
    \/ ShellProgress

SpecBash == BashInit /\ [][BashNext]_vars

-----------------------------------------------------------------------------
(* DBWatcher: following the server's CSV log from a checkpoint             *)

\* A row of the CSV log is "sql" (well formed, its message holds an SQL keyword),
\* "other" (well formed, no SQL keyword) or "bad" (it begins with a timestamp but
\* has fewer fields than the message column's index).
RowKinds == {"sql", "other", "bad"}

RECURSIVE ReadLoop(_, _, _, _, _)
\* the for loop of _read_from over the rows from index i on: pos is raised for
\* every row below start_pos and for every row appended to out; the continue of
\* the except clause leaves it as it is
ReadLoop(rs, i, pos, start_pos, out) ==
    IF i > Len(rs) THEN out
    ELSE IF pos >= start_pos
    THEN IF rs[i] = "bad"
         THEN ReadLoop(rs, i + 1, pos, start_pos, out)
         ELSE ReadLoop(rs, i + 1, pos + 1, start_pos, Append(out, i))
    ELSE ReadLoop(rs, i + 1, pos + 1, start_pos, out)

\* _read_from(path, start_pos): the indices of the rows it returns
ReadFrom(rs, start_pos) == ReadLoop(rs, 1, 0, start_pos, <<>>)

\* filter_sql_entries with keep_durations off, on entries given by row index
FilterSqlEntries(rs, entries) == SelectSeq(entries, LAMBDA i : rs[i] = "sql")

DbObservation(op, ret, fault) ==
    [op |-> op, dir |-> logDir, ret |-> ret, fault |-> fault, prevCkpt |-> ckpt,
     len |-> Len(rows), prevLen |-> dbObs.len, prevOp |-> dbObs.op]

\* set_ckpt: one entry per CSV log, the number of rows _read_from returns from 0
SetCkpt ==
    /\ ckpt' = IF logDir = "csv" THEN Len(ReadFrom(rows, 0)) ELSE -1
    /\ dbObs' = DbObservation("set_ckpt", <<>>, FALSE)
    /\ UNCHANGED <<logDir, rows>>
    /\ UNCHANGED notDbVars

\* get_new_entries: nothing without a log directory; otherwise the last of the
\* CSV logs sorted by mtime is read from its checkpoint, and indexing the empty
\* list of a directory without CSV logs raises IndexError
GetNewEntries ==
    /\ IF logDir = "absent"
       THEN /\ dbObs' = DbObservation("get_new_entries", <<>>, FALSE)
            /\ UNCHANGED ckpt
       ELSE IF logDir = "empty"
       THEN /\ dbObs' = DbObservation("get_new_entries", <<>>, TRUE)
            /\ UNCHANGED ckpt
       ELSE LET start == IF ckpt = -1 THEN 0 ELSE ckpt
                new_rows == ReadFrom(rows, start)
            IN  /\ ckpt' = start + Len(new_rows)
                /\ dbObs' = DbObservation("get_new_entries",
                                          FilterSqlEntries(rows, new_rows), FALSE)
    /\ UNCHANGED <<logDir, rows>>
    /\ UNCHANGED notDbVars

\* the server creates its log directory
ServerCreatesLogDir ==
    /\ logDir = "absent"
    /\ logDir' = "empty"
    /\ UNCHANGED <<rows, ckpt, dbObs>>
    /\ UNCHANGED notDbVars

\* the server appends a row to its CSV log, creating directory and file if needed
ServerWritesRow ==
    /\ Len(rows) < MaxRows
    /\ \E kind \in RowKinds :
         rows' = Append(rows, kind)
    /\ logDir' = "csv"
    /\ UNCHANGED <<ckpt, dbObs>>
    /\ UNCHANGED notDbVars

DbInit == AgentIdle /\ BashIdle /\ ToolsIdle /\ HarnessIdle /\ DbIdle

DbNext ==
    \/ SetCkpt
    \/ GetNewEntries
    \/ ServerCreatesLogDir
    \/ ServerWritesRow

SpecDb == DbInit /\ [][DbNext]_vars

-----------------------------------------------------------------------------
(* ToolRegistry.execute_tool                                               *)

ToolNames == {"read_file", "run_shell_command", "backend_test"}

\* register_tool
RegisterTool ==
    /\ \E name \in ToolNames :
         /\ name \notin tools
         /\ tools' = tools \cup {name}
    /\ UNCHANGED <<toolObs, toolCalls>>
    /\ UNCHANGED notToolVars

\* What execute_tool does for a tool that is registered or not, whose
\* validate_params returns None ("ok"), returns a message ("error") or raises, and
\* whose execute returns or raises.  validate_params is called before the try
\* block, so what it raises leaves execute_tool ("raised").
ExecuteToolOutcome(registered, validate, execute) ==
    IF ~registered THEN "unknown_tool_error"
    ELSE IF validate = "raises" THEN "raised"
    ELSE IF validate = "error" THEN "invalid_params_error"
    ELSE IF execute = "raises" THEN "execute_error"
    ELSE "tool_result"

ExecuteTool ==
    /\ toolCalls < MaxToolExecs
    /\ \E name \in ToolNames, validate \in {"ok", "error", "raises"},
          execute \in {"returns", "raises"} :
         toolObs' = [name |-> name, validate |-> validate, execute |-> execute,
                     outcome |-> ExecuteToolOutcome(name \in tools, validate, execute)]
    /\ toolCalls' = toolCalls + 1
    /\ UNCHANGED tools
    /\ UNCHANGED notToolVars

ToolsInit == AgentIdle /\ BashIdle /\ DbIdle /\ HarnessIdle /\ ToolsIdle

ToolsNext ==
    \/ RegisterTool
    \/ ExecuteTool

SpecTools == ToolsInit /\ [][ToolsNext]_vars

-----------------------------------------------------------------------------
(* Several DBWatcher instances on one database directory, as eval_backend  *)
(* runs them: every BackendTestingAgent of a sample constructs its own     *)
(* watcher on the same db_dir, and the agents run in a process pool while  *)
(* one server writes the log.  The server writes to the CSV log it created *)
(* last, which is therefore the one with the latest mtime.  A row is named *)
(* by its file and its index in it.                                        *)

\* the rows the server may write: a statement caused by a request of a test
\* case that runs, or a row no test case caused (a statement of the
\* services, a row without an SQL keyword, a malformed row)
PgRow(kind, by) == [kind |-> kind, by |-> by]

PgKinds(csv) == [i \in 1..Len(csv) |-> csv[i].kind]

AllPgRows == {<<f, i>> : f \in 1..MaxPgFiles, i \in 1..MaxPgRows}

PgRows == {r \in AllPgRows : r[1] <= Len(pgFiles) /\ r[2] <= Len(pgFiles[r[1]])}

PgRowCount == Cardinality(PgRows)

\* self._ckpt.get(path, 0)
CkptGet(c, f) == IF f <= Len(c) THEN c[f] ELSE 0

\* set_ckpt: for every CSV log the number of rows _read_from returns from 0
CkptOfAll == [f \in 1..Len(pgFiles) |-> Len(ReadFrom(PgKinds(pgFiles[f]), 0))]

\* get_new_entries: the files it reads, the last of the logs sorted by mtime
NewestOnly == {Len(pgFiles)}

\* self._ckpt[path] = start + len(new_rows) for the file that was read
CkptAfterRead(c, f) ==
    [g \in 1..f |->
        IF g = f
        THEN CkptGet(c, f) + Len(ReadFrom(PgKinds(pgFiles[f]), CkptGet(c, f)))
        ELSE CkptGet(c, g)]

\* the entries one get_new_entries call returns, as rows
RECURSIVE NewEntries(_, _)
NewEntries(c, fs) ==
    IF fs = {} THEN <<>>
    ELSE LET f == CHOOSE g \in fs : \A h \in fs : g <= h
             rs == PgKinds(pgFiles[f])
             new_rows == FilterSqlEntries(rs, ReadFrom(rs, CkptGet(c, f)))
         IN  [i \in 1..Len(new_rows) |-> <<f, new_rows[i]>>]
             \o NewEntries(c, fs \ {f})

\* DBWatcher.set_ckpt of watcher w; BackendTestingAgent.run calls it before
\* its test case starts to send requests
WatcherSetCkpt(w) ==
    /\ pgCalls < MaxWatcherCalls
    /\ pgWatch' = [pgWatch EXCEPT ![w] =
                      [running |-> TRUE, ckpt |-> CkptOfAll, mark |-> PgRows,
                       seen |-> PgRows, got |-> <<>>]]
    /\ pgCalls' = pgCalls + 1
    /\ UNCHANGED pgFiles
    /\ UNCHANGED notPgVars

\* DBWatcher.get_new_entries of watcher w; BackendTestingAgent.run calls it
\* after run_agent, when the test case sends no further request
WatcherGetNewEntries(w) ==
    /\ pgCalls < MaxWatcherCalls
    /\ pgWatch[w].ckpt # <<>>
    /\ LET c == pgWatch[w].ckpt
           f == Len(pgFiles)
       IN  pgWatch' = [pgWatch EXCEPT ![w] =
                          [running |-> FALSE,
                           ckpt |-> CkptAfterRead(c, f),
                           mark |-> @.mark,
                           seen |-> PgRows,
                           got |-> @.got \o NewEntries(c, NewestOnly)]]
    /\ pgCalls' = pgCalls + 1
    /\ UNCHANGED pgFiles
    /\ UNCHANGED notPgVars

\* the server appends a row to its current CSV log
PgServerWritesRow ==
    /\ PgRowCount < MaxPgRows
    /\ \E row \in {PgRow("sql", 0), PgRow("other", 0), PgRow("bad", 0)}
                  \cup {PgRow("sql", w) : w \in {v \in Watchers : pgWatch[v].running}} :
         pgFiles' = [pgFiles EXCEPT ![Len(pgFiles)] = Append(@, row)]
    /\ UNCHANGED <<pgWatch, pgCalls>>
    /\ UNCHANGED notPgVars

\* the server starts a new CSV log (log rotation)
PgServerRotates ==
    /\ Len(pgFiles) < MaxPgFiles
    /\ pgFiles' = Append(pgFiles, <<>>)
    /\ UNCHANGED <<pgWatch, pgCalls>>
    /\ UNCHANGED notPgVars

PgInit == AgentIdle /\ BashIdle /\ DbIdle /\ ToolsIdle /\ HarnessIdle

PgNext ==
    \/ \E w \in Watchers : WatcherSetCkpt(w)
    \/ \E w \in Watchers : WatcherGetNewEntries(w)
    \/ PgServerWritesRow
    \/ PgServerRotates

SpecPg == PgInit /\ [][PgNext]_vars

-----------------------------------------------------------------------------
(* The ledger-based batch runners: WebGen-Agent's infer_batch_fullstack.py, *)
(* Qwen-Code's run_batch.py and OpenHands' batch_run.py.  main reads the    *)
(* ledger once, keeps the samples whose id it does not hold and goes        *)
(* through them in corpus order; one action is one iteration of its loop.   *)
(* What happens to a sample is the input of the iteration: "returns" (the   *)
(* agent / CLI ran to its end), "raises" (it raised) or "setup_raises" (an  *)
(* exception before it was invoked, while the sandbox was provisioned).     *)

\* the corpus file, in order
Corpus == [i \in Samples |-> i]

\* the ids of the records of a ledger
LedgerIds(records) == {records[i] : i \in 1..Len(records)}

SampleOutcomes == {"returns", "raises", "setup_raises"}

\* a filter that keeps every sample, ledgered or not
RemainingSamplesAll(all_samples, completed_ids) == all_samples

\* infer_batch_fullstack.main: remaining_samples
RemainingSamples(all_samples, completed_ids) ==
    SelectSeq(all_samples, LAMBDA s : s \notin completed_ids)

\* run_batch.main: filtered_samples
FilteredSamples(samples, finished_ids) ==
    SelectSeq(samples, LAMBDA sample : sample \notin finished_ids)

\* batch_run.main: filtered_test_datas
FilteredTestDatas(test_datas, logged_ids) ==
    SelectSeq(test_datas, LAMBDA test_data : test_data \notin logged_ids)

\* main of runner d up to its loop: the ledger is read and the samples filtered
MainStart(d, rem) ==
    /\ driver \in {"none", d}
    /\ batchPc \in {"idle", "done", "halted"}
    /\ runNo < MaxRuns
    /\ driver' = d
    /\ runNo' = runNo + 1
    /\ pending' = rem
    /\ batchPc' = IF rem = <<>> THEN "done" ELSE "running"
    /\ UNCHANGED <<ledger, invoked, artifact, succeeded, errorTrace, batchObs>>
    /\ UNCHANGED notBatchVars

WebgenMainStart == MainStart("webgen", RemainingSamples(Corpus, LedgerIds(ledger)))

QwenMainStart == MainStart("qwen", FilteredSamples(Corpus, LedgerIds(ledger)))

OpenhandsMainStart == MainStart("openhands", FilteredTestDatas(Corpus, LedgerIds(ledger)))

\* what one loop iteration on the first pending sample leaves behind: the
\* events it went through, whether an exception left main, whether the sample
\* was appended to the ledger, whether error.trace was written
Iterate(d, outcome, it) ==
    LET id == Head(pending)
        ran == outcome # "setup_raises"
    IN  /\ driver = d
        /\ batchPc = "running"
        /\ pending # <<>>
        /\ invoked' = IF ran THEN [invoked EXCEPT ![id] = @ + 1] ELSE invoked
        /\ artifact' = IF ran THEN [artifact EXCEPT ![id] = runNo] ELSE artifact
        /\ succeeded' = IF outcome = "returns" THEN succeeded \cup {id} ELSE succeeded
        /\ errorTrace' = IF it.trace THEN errorTrace \cup {id} ELSE errorTrace
        /\ ledger' = IF it.recorded THEN Append(ledger, id) ELSE ledger
        /\ pending' = IF it.halt THEN <<>> ELSE Tail(pending)
        /\ batchPc' = IF it.halt THEN "halted"
                      ELSE IF Tail(pending) = <<>> THEN "done" ELSE "running"
        /\ batchObs' = [id |-> id, outcome |-> outcome, events |-> it.events,
                        run |-> runNo]
        /\ UNCHANGED <<driver, runNo>>
        /\ UNCHANGED notBatchVars

\* infer_batch_fullstack.process: everything runs inside try, and any
\* exception becomes the payload {id, ok: False, error, trace}
Process(outcome) == [ok |-> outcome = "returns"]

\* a failing payload goes on to the next sample instead of raising
WebgenHandlePayloadCarryOn(payload) ==
    IF payload.ok
    THEN [events |-> <<"process", "save_jsonl">>, halt |-> FALSE, recorded |-> TRUE,
          trace |-> FALSE]
    ELSE [events |-> <<"process", "stderr">>, halt |-> FALSE, recorded |-> FALSE,
          trace |-> FALSE]

\* infer_batch_fullstack.main, the body of the loop after worker(sample): a
\* successful payload is appended to output.jsonl, a failing one is written to
\* stderr and raised again
WebgenHandlePayload(payload) ==
    IF payload.ok
    THEN [events |-> <<"process", "save_jsonl">>, halt |-> FALSE, recorded |-> TRUE,
          trace |-> FALSE]
    ELSE [events |-> <<"process", "stderr", "raise">>, halt |-> TRUE,
          recorded |-> FALSE, trace |-> FALSE]

WebgenLoopBody ==
    \E outcome \in SampleOutcomes :
        Iterate("webgen", outcome, WebgenHandlePayload(Process(outcome)))

\* run_batch.process_single.  The sandbox is provisioned before the try.  The
\* except clause calls logging.exception, and run_batch.py does not import
\* logging: the handler itself raises NameError before error.trace is opened;
\* the finally clause stops the sandbox and the NameError leaves the function.
ProcessSingle(outcome) ==
    CASE outcome = "returns" ->
            [events |-> <<"provision", "execute_qwen_cli", "stop_docker_containers">>,
             raised |-> FALSE, trace |-> FALSE]
      [] outcome = "raises" ->
            [events |-> <<"provision", "execute_qwen_cli", "except",
                          "stop_docker_containers">>,
             raised |-> TRUE, trace |-> FALSE]
      [] outcome = "setup_raises" ->
            [events |-> <<"provision">>, raised |-> TRUE, trace |-> FALSE]

\* run_batch.main, the body of the loop: process_single, then the id is
\* appended to finished_samples.jsonl
QwenLoopBody ==
    \E outcome \in SampleOutcomes :
        LET r == ProcessSingle(outcome)
        IN  Iterate("qwen", outcome,
                    [events |-> IF r.raised THEN r.events
                                ELSE Append(r.events, "save_jsonl"),
                     halt |-> r.raised, recorded |-> ~r.raised, trace |-> r.trace])

\* batch_run.process_single: the workspace and the conversation are closed on
\* the way out, no exception is caught
OpenhandsProcessSingle(outcome) ==
    CASE outcome = "returns" ->
            [events |-> <<"chown", "workspace", "run", "close">>, raised |-> FALSE]
      [] outcome = "raises" ->
            [events |-> <<"chown", "workspace", "run", "close">>, raised |-> TRUE]
      [] outcome = "setup_raises" ->
            [events |-> <<"chown">>, raised |-> TRUE]

\* batch_run.main, the body of the loop: process_single, then the sample is
\* appended to log.jsonl
OpenhandsLoopBody ==
    \E outcome \in SampleOutcomes :
        LET r == OpenhandsProcessSingle(outcome)
        IN  Iterate("openhands", outcome,
                    [events |-> IF r.raised THEN r.events
                                ELSE Append(r.events, "save_jsonl"),
                     halt |-> r.raised, recorded |-> ~r.raised, trace |-> FALSE])

BatchInit == AgentIdle /\ BashIdle /\ DbIdle /\ ToolsIdle /\ HarnessIdle

BatchNext ==
    \/ WebgenMainStart
    \/ WebgenLoopBody
    \/ QwenMainStart
    \/ QwenLoopBody
    \/ OpenhandsMainStart
    \/ OpenhandsLoopBody

SpecBatch == BatchInit /\ [][BatchNext]_vars

-----------------------------------------------------------------------------
(* The TDDev fullstack runner, automatic_run_fullstack.main.  main goes     *)
(* through the whole corpus and skips a sample whose archive exists.  An    *)
(* action is the stretch of the loop body between two waits: up to          *)
(* wait_until_client_ready, the wait's two ends, the UI run with its        *)
(* finally clause, and the sleep that ends the body.                        *)

\* main up to its loop
TddevMainStart ==
    /\ tdPc \in {"idle", "done", "halted"}
    /\ tdRuns < MaxRuns
    /\ tdRuns' = tdRuns + 1
    /\ tdPending' = Corpus
    /\ tdPc' = "loop"
    /\ UNCHANGED <<sandboxUp, clientUp, zips, last_zip_log, zipFrom, tdObs>>
    /\ UNCHANGED notTddevVars

\* the position after the body of the loop ended for the first pending sample
TddevAdvance ==
    /\ tdPending' = Tail(tdPending)
    /\ tdPc' = IF Tail(tdPending) = <<>> THEN "done" ELSE "loop"

\* the archive of the sample exists: continue
TddevSkip ==
    /\ tdPc = "loop"
    /\ Head(tdPending) \in zips
    /\ TddevAdvance
    /\ tdObs' = [id |-> Head(tdPending), events |-> <<"skip">>]
    /\ UNCHANGED <<tdRuns, sandboxUp, clientUp, zips, last_zip_log, zipFrom>>
    /\ UNCHANGED notTddevVars

\* the compose file is written, the sample's own project stopped, every
\* container publishing the database port stopped and removed, the sandbox
\* started; then the client application is started
TddevProvision ==
    /\ tdPc = "loop"
    /\ Head(tdPending) \notin zips
    /\ sandboxUp' = {Head(tdPending)}
    /\ clientUp' = TRUE
    /\ tdPc' = "waiting"
    /\ tdObs' = [id |-> Head(tdPending),
                 events |-> <<"start_docker_containers", "_start_client_app">>]
    /\ UNCHANGED <<tdPending, tdRuns, zips, last_zip_log, zipFrom>>
    /\ UNCHANGED notTddevVars

\* wait_until_client_ready returned
TddevClientReady ==
    /\ tdPc = "waiting"
    /\ tdPc' = "ready"
    /\ UNCHANGED <<tdPending, tdRuns, sandboxUp, clientUp, zips, last_zip_log, zipFrom, tdObs>>
    /\ UNCHANGED notTddevVars

\* the except clause for TimeoutError: the client is stopped and RuntimeError
\* raised; stop_docker_containers is not called
OnClientTimeout ==
    [events |-> <<"_stop_client_app", "raise">>, sandbox |-> sandboxUp]

\* wait_until_client_ready raised TimeoutError
TddevClientTimeout ==
    /\ tdPc = "waiting"
    /\ clientUp' = FALSE
    /\ sandboxUp' = OnClientTimeout.sandbox
    /\ tdPc' = "halted"
    /\ tdObs' = [tdObs EXCEPT !.events = @ \o OnClientTimeout.events]
    /\ UNCHANGED <<tdPending, tdRuns, zips, last_zip_log, zipFrom>>
    /\ UNCHANGED notTddevVars

\* when the client application, alive from _start_client_app to
\* _stop_client_app, finishes the download of the archive of the request
\* sent for the sample: "intime" during the sleep that follows the click,
\* "late" after LAST_ZIP_LOG_PATH was looked at, "none" not while it is alive
Downloads == {"none", "intime", "late"}

\* the file LAST_ZIP_LOG_PATH as the code finds it after the sleep
LogAtRead(log, id, dl) == IF dl = "intime" THEN id ELSE log

\* the lines that retrieve the archive: when the log file exists and names
\* an existing archive, the archive is copied to <test_id>.zip; the log
\* file, when it exists, is removed
RetrieveZip(log, exists) ==
    [copied |-> IF log # 0 /\ exists THEN log ELSE 0, log |-> 0]

\* run_single_instruction inside try, and the finally clause that stops the
\* client and the sandbox.  raises: it raised before it looked at the log
\* file.  "zip": the archive was copied to OUTPUT_DIR; "nozip": the run ended
\* without an archive
TddevRunInstruction ==
    \E raises \in BOOLEAN, dl \in Downloads, exists \in BOOLEAN :
        LET id == Head(tdPending)
            r == RetrieveZip(LogAtRead(last_zip_log, id, dl), exists)
            outcome == IF raises THEN "raises"
                       ELSE IF r.copied # 0 THEN "zip" ELSE "nozip"
        IN  /\ tdPc = "ready"
            /\ raises => exists      \* exists is looked at only when the log is
            /\ zips' = IF outcome = "zip" THEN zips \cup {id} ELSE zips
            /\ zipFrom' = IF outcome = "zip" THEN [zipFrom EXCEPT ![id] = r.copied]
                          ELSE zipFrom
            /\ last_zip_log' = IF dl = "late" THEN id
                               ELSE IF raises THEN LogAtRead(last_zip_log, id, dl)
                               ELSE r.log
            /\ clientUp' = FALSE
            /\ sandboxUp' = sandboxUp \ {id}
            /\ tdPc' = IF outcome = "raises" THEN "halted" ELSE "cooldown"
            /\ tdObs' = [tdObs EXCEPT !.events =
                            @ \o <<"run_single_instruction", "_stop_client_app",
                                   "stop_docker_containers">>
                              \o (IF outcome = "raises" THEN <<"raise">> ELSE <<"sleep">>)]
            /\ UNCHANGED <<tdPending, tdRuns>>
            /\ UNCHANGED notTddevVars

\* time.sleep(WAIT_AFTER_STOP_SEC) returned
TddevCoolDown ==
    /\ tdPc = "cooldown"
    /\ TddevAdvance
    /\ UNCHANGED <<tdRuns, sandboxUp, clientUp, zips, last_zip_log, zipFrom, tdObs>>
    /\ UNCHANGED notTddevVars

TddevInit == AgentIdle /\ BashIdle /\ DbIdle /\ ToolsIdle /\ HarnessIdle

TddevNext ==
    \/ TddevMainStart
    \/ TddevSkip
    \/ TddevProvision
    \/ TddevClientReady
    \/ TddevClientTimeout
    \/ TddevRunInstruction
    \/ TddevCoolDown

SpecTddev == TddevInit /\ [][TddevNext]_vars

-----------------------------------------------------------------------------
(* The Docker sandbox utilities of utils/sandbox.py.  What a docker command *)
(* does is the input of a call: for subprocess.run(..., check=True,         *)
(* timeout=...) "ok", "timeout" (TimeoutExpired), "nonzero"                 *)
(* (CalledProcessError) or "oserror" (the command could not be launched:    *)
(* FileNotFoundError, PermissionError); for compose up, which runs without  *)
(* a timeout, a non-zero exit is "network_not_found" when its stderr holds  *)
(* "network" and "not found" and "other_nonzero" when it does not.          *)

StopOutcomes == {"ok", "timeout", "nonzero", "oserror"}

StartOutcomes == {"ok", "network_not_found", "other_nonzero", "oserror"}

\* stop_docker_containers, the cleanup after the second compose down failed:
\* kill, then rm when kill succeeded; except Exception swallows every failure
StopCleanup(o) ==
    IF o[3] = "ok" THEN <<"kill", "rm">> ELSE <<"kill">>

\* stop_docker_containers, with o[i] what its i-th docker command does
StopDockerContainers(o) ==
    CASE o[1] = "ok" ->
            [commands |-> <<"down">>, ret |-> "True", logged |-> FALSE]
      [] o[1] = "nonzero" ->
            [commands |-> <<"down">>, ret |-> "False", logged |-> TRUE]
      [] o[1] = "oserror" ->
            [commands |-> <<"down">>, ret |-> "raised", logged |-> FALSE]
      [] o[1] = "timeout" ->
            CASE o[2] = "ok" ->
                    [commands |-> <<"down", "down">>, ret |-> "True", logged |-> TRUE]
              [] o[2] = "oserror" ->
                    [commands |-> <<"down", "down">>, ret |-> "raised", logged |-> TRUE]
              [] OTHER ->
                    [commands |-> <<"down", "down">> \o StopCleanup(o),
                     ret |-> "False", logged |-> TRUE]

StopCall ==
    \E o \in [1..4 -> StopOutcomes] :
        LET r == StopDockerContainers(o)
        IN  /\ stopObs' = [outcomes |-> SubSeq(o, 1, Len(r.commands)),
                           commands |-> r.commands, ret |-> r.ret, logged |-> r.logged,
                           sleeps |-> 0]
            /\ UNCHANGED startObs
            /\ UNCHANGED notSandboxVars

MaxStartAttempts == 3

RECURSIVE StartAttempt(_, _)
\* start_docker_containers from the given attempt of its loop on, with o[i]
\* what the i-th compose up does
StartAttempt(o, attempt) ==
    IF attempt >= MaxStartAttempts
    THEN [attempts |-> attempt, ret |-> "False", sleeps |-> attempt]
    ELSE CASE o[attempt + 1] = "ok" ->
                 [attempts |-> attempt + 1, ret |-> "True", sleeps |-> attempt]
           [] o[attempt + 1] = "oserror" ->
                 [attempts |-> attempt + 1, ret |-> "raised", sleeps |-> attempt]
           [] o[attempt + 1] = "network_not_found" /\ attempt < MaxStartAttempts - 1 ->
                 StartAttempt(o, attempt + 1)
           [] OTHER ->
                 [attempts |-> attempt + 1, ret |-> "False", sleeps |-> attempt]

StartDockerContainers(o) == StartAttempt(o, 0)

StartCall ==
    \E o \in [1..MaxStartAttempts -> StartOutcomes] :
        LET r == StartDockerContainers(o)
        IN  /\ startObs' = [outcomes |-> SubSeq(o, 1, r.attempts),
                            commands |-> [i \in 1..r.attempts |-> "up"],
                            ret |-> r.ret, logged |-> r.ret = "False",
                            sleeps |-> r.sleeps]
            /\ UNCHANGED stopObs
            /\ UNCHANGED notSandboxVars

SandboxInit == AgentIdle /\ BashIdle /\ DbIdle /\ ToolsIdle /\ HarnessIdle

SandboxNext ==
    \/ StopCall
    \/ StartCall

SpecSandbox == SandboxInit /\ [][SandboxNext]_vars

-----------------------------------------------------------------------------
(* The names of a compose project.  A run is a sample processed under a    *)
(* run / log root by a caller; the caller decides where the compose file   *)
(* goes, and create_docker_compose_file derives the names from the last    *)
(* component of the compose file's directory and of the log directory.  A  *)
(* path component is a number: of a sample's own directory the sample id,  *)
(* of "webgen-agent_<id>" NumSamples + 1 + id, of "backend_docker" 0.      *)

Roots == 1..NumRoots

\* "runner": infer_batch_fullstack.process and run_batch.process_single,
\* compose file in <log_root>/<id>/webgen-agent_<id>; "tddev":
\* automatic_run_fullstack.main, compose file in <LOG_DIR>/<id>;
\* "eval_backend": eval_backend.main, compose file in <log_dir>/backend_docker
Callers == {"runner", "tddev", "eval_backend"}

\* os.path.basename(os.path.dirname(compose_path)) for a caller's compose_path
ComposeDirName(caller, sample) ==
    CASE caller = "runner" -> NumSamples + 1 + sample
      [] caller = "tddev" -> sample
      [] caller = "eval_backend" -> 0

\* _hash_name: a fixed function of the name alone, with values in a bounded
\* space; no two names of the model have the same value
HashName(name) == (31 * name + 7) % HashSpace

\* utils/sandbox.py create_docker_compose_file: the container name and the keys
\* of the volume and of the network written to the compose file
CreateDockerComposeFile(caller, root, sample) ==
    LET name_hash == HashName(ComposeDirName(caller, sample))
    IN  [run |-> [caller |-> caller, root |-> root, sample |-> sample],
         module |-> "utils",
         container |-> [kind |-> "container_", key |-> name_hash, sub |-> 0],
         volume |-> [kind |-> "postgres_data_container_", key |-> name_hash, sub |-> 0],
         network |-> [kind |-> "webgen_network_container_", key |-> name_hash,
                      sub |-> 0]]

\* webgen-agent sandbox.py create_docker_compose_file: no container name and no
\* network are written, the volume key is postgres_data_<basename(log_dir)>;
\* docker compose prefixes what it creates with the project name, the name of
\* the compose file's directory
WebgenCreateDockerComposeFile(caller, root, sample) ==
    LET project == ComposeDirName(caller, sample)
    IN  [run |-> [caller |-> caller, root |-> root, sample |-> sample],
         module |-> "webgen-agent",
         container |-> [kind |-> "<project>-workspace-1", key |-> project, sub |-> 0],
         volume |-> [kind |-> "<project>_postgres_data_", key |-> project,
                     sub |-> sample],
         network |-> [kind |-> "<project>_default", key |-> project, sub |-> 0]]

\* a run writes its compose file with utils/sandbox.py
ComposeCreate ==
    \E caller \in Callers, root \in Roots, sample \in Samples :
        /\ Cardinality(projects) < ConcurrentRuns
        /\ \A q \in projects :
              q.run # [caller |-> caller, root |-> root, sample |-> sample]
        /\ projects' = projects \cup {CreateDockerComposeFile(caller, root, sample)}
        /\ UNCHANGED notComposeVars

\* a run writes its compose file with the WebGen-Agent baseline's sandbox.py
WebgenComposeCreate ==
    \E caller \in Callers, root \in Roots, sample \in Samples :
        /\ Cardinality(projects) < ConcurrentRuns
        /\ \A q \in projects :
              q.run # [caller |-> caller, root |-> root, sample |-> sample]
        /\ projects' = projects \cup {WebgenCreateDockerComposeFile(caller, root, sample)}
        /\ UNCHANGED notComposeVars

\* a run ends and its project is taken down
ComposeDown ==
    \E q \in projects :
        /\ projects' = projects \ {q}
        /\ UNCHANGED notComposeVars

ComposeInit == AgentIdle /\ BashIdle /\ DbIdle /\ ToolsIdle /\ HarnessIdle

ComposeNext ==
    \/ ComposeCreate
    \/ WebgenComposeCreate
    \/ ComposeDown

SpecCompose == ComposeInit /\ [][ComposeNext]_vars

-----------------------------------------------------------------------------
(* EditTool.execute of edit_tool.py (the replace tool), on one file of the  *)
(* working directory.  A string is a sequence of characters.  The path is   *)
(* valid and the file can be read and written.                              *)

\* the strings a call passes as old_string and as new_string
EditStrings == { <<>>, <<"a">>, <<"b">>, <<"a", "a">>, <<"a", "b">> }

\* the values a call passes as expected_replacements
ExpectedReplacements == {1, 2}

RECURSIVE Count(_, _)
\* str.count: the non-overlapping occurrences of sub in s, from the left
Count(s, sub) ==
    IF sub = <<>> THEN Len(s) + 1
    ELSE IF Len(s) < Len(sub) THEN 0
    ELSE IF SubSeq(s, 1, Len(sub)) = sub
         THEN 1 + Count(SubSeq(s, Len(sub) + 1, Len(s)), sub)
         ELSE Count(Tail(s), sub)

RECURSIVE Replace(_, _, _)
\* str.replace with a non-empty old: every non-overlapping occurrence, from
\* the left
Replace(s, old, new) ==
    IF Len(s) < Len(old) THEN s
    ELSE IF SubSeq(s, 1, Len(old)) = old
         THEN new \o Replace(SubSeq(s, Len(old) + 1, Len(s)), old, new)
         ELSE <<Head(s)>> \o Replace(Tail(s), old, new)

\* apply_replacement
ApplyReplacement(current_content, old_string, new_string) ==
    IF old_string = <<>> THEN new_string
    ELSE Replace(current_content, old_string, new_string)

\* EditTool.execute after validate_params: the kind of the result and the
\* content the file has afterwards
EditExecute(file_exists, current_content, old_string, new_string, expected) ==
    LET occurrences == Count(current_content, old_string)
        unchanged(type) == [type |-> type, exists |-> file_exists,
                            content |-> current_content]
    IN  IF ~file_exists
        THEN IF old_string # <<>>
             THEN unchanged("file_not_found")
             ELSE [type |-> "created", exists |-> TRUE, content |-> new_string]
        ELSE IF old_string = <<>>
             THEN unchanged("attempt_to_create_existing_file")
        ELSE IF occurrences = 0
             THEN unchanged("edit_no_occurrence_found")
        ELSE IF occurrences # expected
             THEN unchanged("edit_expected_occurrence_mismatch")
        ELSE IF old_string = new_string
             THEN unchanged("edit_no_change")
        ELSE [type |-> "modified", exists |-> TRUE,
              content |-> ApplyReplacement(current_content, old_string, new_string)]

\* a replace call
EditCall ==
    \E old_string \in EditStrings, new_string \in EditStrings,
       expected_replacements \in ExpectedReplacements :
        LET r == EditExecute(fileExists, file, old_string, new_string,
                             expected_replacements)
        IN  /\ Len(r.content) <= MaxFileLen
            /\ fileExists' = r.exists
            /\ file' = r.content
            /\ editObs' = [old |-> old_string, new |-> new_string,
                           expected |-> expected_replacements,
                           existed |-> fileExists, before |-> file, type |-> r.type]
            /\ UNCHANGED notEditVars

\* the file is removed from the working directory
EditFileRemoved ==
    /\ fileExists
    /\ fileExists' = FALSE
    /\ file' = <<>>
    /\ UNCHANGED editObs
    /\ UNCHANGED notEditVars

EditInit == AgentIdle /\ BashIdle /\ DbIdle /\ ToolsIdle /\ HarnessIdle

EditNext ==
    \/ EditCall
    \/ EditFileRemoved

SpecEdit == EditInit /\ [][EditNext]_vars

-----------------------------------------------------------------------------
(* ReadFileTool of file_tools.py on a text file.  The file is a sequence   *)
(* of characters, "\n" the line terminator.  A caller walks through the    *)
(* file: a first call at offset 0, then, as long as the last response is   *)
(* marked truncated, a call at the offset that response names, always with *)
(* the same limit.                                                         *)

\* the contents the text file may have
TextFiles == UNION {[1..n -> {"a", "b", "\n"}] : n \in 0..MaxFileLen}

RECURSIVE FirstLineLen(_)
\* the length of the first line of a non-empty text, its terminator included
FirstLineLen(s) ==
    IF Len(s) = 1 \/ Head(s) = "\n" THEN 1 ELSE 1 + FirstLineLen(Tail(s))

RECURSIVE ReadLines(_)
\* f.readlines(): the lines with their terminators; the last line may lack one
ReadLines(s) ==
    IF s = <<>> THEN <<>>
    ELSE <<SubSeq(s, 1, FirstLineLen(s))>>
            \o ReadLines(SubSeq(s, FirstLineLen(s) + 1, Len(s)))

RECURSIVE Join(_)
\* "".join(lines)
Join(lines) == IF lines = <<>> THEN <<>> ELSE Head(lines) \o Join(Tail(lines))

\* ReadFileTool._read_text_file_with_pagination
ReadTextFileWithPagination(text, offset, limit) ==
    LET lines == ReadLines(text)
        total_lines == Len(lines)
        paginated_lines == SubSeq(lines, offset + 1, Min(offset + limit, total_lines))
        rest == IF offset >= total_lines THEN 0 ELSE total_lines - offset
    IN  [content |-> Join(paginated_lines),
         is_truncated |-> Len(paginated_lines) < rest \/ total_lines > limit,
         start_line |-> offset + 1,
         end_line |-> Min(offset + Len(paginated_lines), total_lines),
         total_lines |-> total_lines]

\* a next offset that leaves out the + 1
NextOffsetShort(offset, start_line, end_line) == offset + (end_line - start_line)

\* ReadFileTool.execute: the offset a truncated response tells the caller to
\* request next
NextOffset(offset, start_line, end_line) == offset + (end_line - start_line + 1)

\* ReadFileTool.execute on a text file: the response and what the walk keeps
ReadExecute(offset, limit) ==
    LET r == ReadTextFileWithPagination(readText, offset, limit)
    IN  /\ pages' = Append(pages, r.content)
        /\ readObs' = [offset |-> offset, content |-> r.content,
                       truncated |-> r.is_truncated,
                       next_offset |-> IF r.is_truncated
                                       THEN NextOffset(offset, r.start_line, r.end_line)
                                       ELSE -1,
                       start_line |-> r.start_line, end_line |-> r.end_line,
                       total_lines |-> r.total_lines]

\* the file is written before anybody reads it
ReadFileWritten ==
    /\ readLimit = 0
    /\ readText' \in TextFiles
    /\ UNCHANGED <<readLimit, pages, readObs>>
    /\ UNCHANGED notReadVars

\* the first call of a walk: offset 0, the limit the caller settles on
ReadFirstPage ==
    \E limit \in 1..MaxLimit :
        /\ readLimit = 0
        /\ readLimit' = limit
        /\ ReadExecute(0, limit)
        /\ UNCHANGED readText
        /\ UNCHANGED notReadVars

\* a further call, at the offset the last response named
ReadNextPage ==
    /\ readLimit > 0
    /\ readObs.truncated
    /\ Len(pages) < MaxReads
    /\ ReadExecute(readObs.next_offset, readLimit)
    /\ UNCHANGED <<readText, readLimit>>
    /\ UNCHANGED notReadVars

ReadInit == AgentIdle /\ BashIdle /\ DbIdle /\ ToolsIdle /\ HarnessIdle

ReadNext ==
    \/ ReadFileWritten
    \/ ReadFirstPage
    \/ ReadNextPage

SpecRead == ReadInit /\ [][ReadNext]_vars

-----------------------------------------------------------------------------
(* backend_compute_acc of eval_qwen-code/backend_compute_acc.py: the loop   *)
(* over the task directories of results_backend, one action an iteration.   *)
(* The per-category counters follow the totals and are left out.            *)

\* what a task directory may hold
TaskResults ==
    [judgement : {"missing", "YES", "NO"}, db : {"absent", "YES", "NO"}]

\* the orders in which os.listdir may return the task directories
ListdirOrders ==
    {o \in [1..NumTasks -> Tasks] : \A i, j \in 1..NumTasks : i # j => o[i] # o[j]}

\* backend_compute_acc up to its loop, on the results the evaluation left
AccStart ==
    \E dirs \in [Tasks -> TaskResults], order \in ListdirOrders :
        /\ accPc = "idle"
        /\ resultDirs' = dirs
        /\ tasksLeft' = order
        /\ accPc' = "loop"
        /\ score' = 0
        /\ db_score' = 0
        /\ db_weight' = -1
        /\ accObs' = NoAccObs
        /\ UNCHANGED notAccVars

\* the value of db_weight after the if on db_interaction_result.json: the
\* file's judgement when the file exists, else what the variable held before
DbWeightAfter(weight, db) ==
    IF db = "absent" THEN weight ELSE IF db = "YES" THEN 1 ELSE 0

\* the loop is over
AccAdvance ==
    accPc' = IF Tail(tasksLeft) = <<>> THEN "done" ELSE "loop"

\* one iteration of the loop over tasks
AccLoopBody ==
    LET task == Head(tasksLeft)
        r == resultDirs[task]
        w == DbWeightAfter(db_weight, r.db)
    IN  /\ accPc = "loop"
        /\ tasksLeft' = Tail(tasksLeft)
        /\ UNCHANGED resultDirs
        /\ IF r.judgement = "missing"
           THEN /\ AccAdvance
                /\ accObs' = [task |-> task, added |-> 0, db_added |-> 0]
                /\ UNCHANGED <<db_weight, score, db_score>>
           ELSE /\ db_weight' = w
                /\ IF r.judgement = "YES"
                   THEN /\ score' = score + 1
                        /\ IF w = -1
                           THEN \* db_score += db_weight: UnboundLocalError
                                /\ accPc' = "fault"
                                /\ db_score' = db_score
                                /\ accObs' = [task |-> task, added |-> 1, db_added |-> 0]
                           ELSE /\ AccAdvance
                                /\ db_score' = db_score + w
                                /\ accObs' = [task |-> task, added |-> 1, db_added |-> w]
                   ELSE /\ AccAdvance
                        /\ accObs' = [task |-> task, added |-> 0, db_added |-> 0]
                        /\ UNCHANGED <<score, db_score>>
        /\ UNCHANGED notAccVars

AccInit == AgentIdle /\ BashIdle /\ DbIdle /\ ToolsIdle /\ HarnessIdle

AccNext ==
    \/ AccStart
    \/ AccLoopBody

SpecAcc == AccInit /\ [][AccNext]_vars

-----------------------------------------------------------------------------
(* compute_acc of eval_tddev/compute_acc.py: the table of the UI test      *)
(* cases.  The dataset has NumUiTasks test cases, TasksPerSample to a      *)
(* sample; a sample has a category of the first taxonomy, a test case one  *)
(* of the second.  The loop adds every task directory's outcome to the     *)
(* counters of the run, of the sample's category and of the test case's    *)
(* category; no iteration reads what an earlier one left in a local, so    *)
(* the model goes through the directories in the order of the dataset.     *)
(* The database-weighted table is accumulated in locals of its own         *)
(* (db_score, db_categories, ...) that the plain table never reads; they   *)
(* are left out here.                                                      *)

\* the sample a test case belongs to, and the two categories that count it
SampleOf(i) == ((i - 1) \div TasksPerSample) + 1

SampleCategory(i) == PRIMARY_CATEGORIES[((SampleOf(i) - 1) % 3) + 1]

TaskCategory(i) == INST_PRIMARY_CATEGORIES[((i - 1) % 3) + 1]

\* what the result directory holds for one test case: no directory, a
\* directory without interact_messages.json, or the words of the last
\* assistant message of interact_messages.json (none: no such message)
UiTexts == {{"YES"}, {"PARTIAL"}, {"YES", "PARTIAL"}, {"NO"}, {}}

TaskDirs ==
    {[dir |-> "absent", text |-> {}], [dir |-> "nofile", text |-> {}]}
    \cup {[dir |-> "file", text |-> t] : t \in UiTexts}

\* the first loop: the totals of the dataset
DatasetTotals ==
    [c \in CategoryNames |->
        [CategoryCounters EXCEPT !.total =
            Cardinality({i \in 1..NumUiTasks :
                            SampleCategory(i) = c \/ TaskCategory(i) = c})]]

CaStart ==
    /\ caPc = "idle"
    /\ caPc' = "loop"
    /\ caNext' = 1
    /\ categories' = DatasetTotals
    /\ caCount' = [caCount EXCEPT !.total = NumUiTasks]
    /\ UNCHANGED caReport
    /\ UNCHANGED notCaVars

\* the three branches of the loop body, on one set of counters
CountYes(c) == [c EXCEPT !.yes_num = @ + 1, !.score2 = @ + 2]

CountPartialAsYes(c) == [c EXCEPT !.partial_num = @ + 1, !.score2 = @ + 2]

CountPartial(c) == [c EXCEPT !.partial_num = @ + 1, !.score2 = @ + 1]

CountNo(c) == [c EXCEPT !.no_num = @ + 1]

CountTask(text, c) ==
    IF "YES" \in text THEN CountYes(c)
    ELSE IF "PARTIAL" \in text THEN CountPartial(c)
    ELSE CountNo(c)

\* one iteration of the loop over the task directories
CaLoopBody ==
    /\ caPc = "loop"
    /\ caNext <= NumUiTasks
    /\ \E d \in TaskDirs :
        IF d.dir # "file"
        THEN UNCHANGED <<categories, caCount>>
        ELSE LET cat == SampleCategory(caNext)
                 task_cat == TaskCategory(caNext)
             IN /\ caCount' = CountTask(d.text, caCount)
                /\ categories' =
                      [categories EXCEPT ![cat] = CountTask(d.text, @),
                                         ![task_cat] = CountTask(d.text, @)]
    /\ caNext' = caNext + 1
    /\ UNCHANGED <<caPc, caReport>>
    /\ UNCHANGED notCaVars

\* accuracy = score / total * 100
Accuracy(score2, total) == Fraction(score2 * 100, 2 * total)

\* the lines after the loop, for one category
CloseCategory(c) ==
    [c EXCEPT !.start_failed_num = c.total - c.yes_num - c.partial_num - c.no_num,
              !.accuracy = IF c.total > 0 THEN Accuracy(c.score2, c.total)
                           ELSE Fraction(0, 1)]

\* after the loop: the categories are closed and the table is written; a
\* dataset without test cases makes the rates divide by zero
CaFinish ==
    /\ caPc = "loop"
    /\ caNext > NumUiTasks
    /\ categories' = [c \in CategoryNames |-> CloseCategory(categories[c])]
    /\ IF caCount.total = 0
       THEN /\ caPc' = "fault"
            /\ UNCHANGED caReport
       ELSE /\ caPc' = "done"
            /\ caReport' =
                  [score2 |-> caCount.score2,
                   accuracy |-> Accuracy(caCount.score2, caCount.total),
                   start_failed_num |-> caCount.total - caCount.yes_num
                                        - caCount.partial_num - caCount.no_num,
                   total |-> caCount.total,
                   yes_num |-> caCount.yes_num,
                   partial_num |-> caCount.partial_num,
                   no_num |-> caCount.no_num]
    /\ UNCHANGED <<caNext, caCount>>
    /\ UNCHANGED notCaVars

CaInit == AgentIdle /\ BashIdle /\ DbIdle /\ ToolsIdle /\ HarnessIdle

CaNext ==
    \/ CaStart
    \/ CaLoopBody
    \/ CaFinish

SpecCa == CaInit /\ [][CaNext]_vars

-----------------------------------------------------------------------------
(* grade_sample of eval_webgen-agent/eval_db.py, as eval_db's thread pool  *)
(* runs it for every (sample, data structure) pair.  A model attempt is    *)
(* one step; coverage and llm_resp are locals that only an attempt binds.  *)

MAX_RETRIES == 10

\* what one attempt can do: llm_generation raises; the reply has no text
\* (content None, parse_grade_response raises TypeError); the text holds no
\* JSON object (parse_grade_response returns {}, coverage["answer"] raises
\* KeyError); the object has no "answer" key (KeyError); the answer is Yes;
\* the answer is anything else
AttemptOutcomes == {"raises", "no_text", "no_json", "no_answer", "yes", "no"}

\* the locals after one pass through the try block
AfterAttempt(l, o) ==
    CASE o = "raises" -> l
      [] o = "no_text" -> [l EXCEPT !.llm_resp = "no_text"]
      [] o = "no_json" -> [l EXCEPT !.llm_resp = "no_json", !.coverage = "empty"]
      [] o = "no_answer" ->
            [l EXCEPT !.llm_resp = "no_answer", !.coverage = "no_answer"]
      [] o = "yes" -> [llm_resp |-> "yes", coverage |-> "yes", answer |-> TRUE]
      [] o = "no" -> [llm_resp |-> "no", coverage |-> "no", answer |-> FALSE]

\* the attempt reaches the break
Breaks(o) == o \in {"yes", "no"}

\* eval_db submits grade_sample for every pair; the dumps of the first
\* phase and the grade files of an earlier run are the input
EvalDbSubmit ==
    /\ \A p \in Pairs : gradePc[p] = "idle"
    /\ gradePc' = [p \in Pairs |-> "submitted"]
    /\ \E dumps \in [Pairs -> BOOLEAN], old \in [Pairs -> BOOLEAN] :
         gradeFiles' =
            [p \in Pairs |->
                [dump |-> dumps[p],
                 grade |-> IF old[p]
                           THEN [coverage |-> "no", answer |-> FALSE,
                                 llm_response |-> "no"]
                           ELSE NoBlob]]
    /\ UNCHANGED <<gradeTry, gradeLocals>>
    /\ UNCHANGED notGradeVars

\* grade_sample up to its loop: the two early returns
GradeSampleEnter(p) ==
    /\ gradePc[p] = "submitted"
    /\ gradePc' =
          [gradePc EXCEPT ![p] =
              IF ~gradeFiles[p].dump \/ gradeFiles[p].grade # NoBlob
              THEN "returned" ELSE "loop"]
    /\ UNCHANGED <<gradeTry, gradeLocals, gradeFiles>>
    /\ UNCHANGED notGradeVars

\* the lines after the loop: result_blob reads coverage and llm_resp, which
\* raises UnboundLocalError when no attempt bound them; else the blob is
\* saved.  llm_resp.get("content", "") is the text of the last reply.
SaveGrade(p, l) ==
    IF l.coverage = "unbound" \/ l.llm_resp = "unbound"
    THEN /\ gradePc' = [gradePc EXCEPT ![p] = "raised"]
         /\ UNCHANGED gradeFiles
    ELSE /\ gradePc' = [gradePc EXCEPT ![p] = "returned"]
         /\ gradeFiles' =
               [gradeFiles EXCEPT ![p].grade =
                   [coverage |-> l.coverage, answer |-> l.answer,
                    llm_response |-> l.llm_resp]]

\* the end of the loop with the range exhausted as well as by the break
LoopEnds(try, o) == Breaks(o) \/ try = MAX_RETRIES

\* one attempt of the loop and, when the loop ends with it, the lines after
GradeAttempt(p) ==
    /\ gradePc[p] = "loop"
    /\ gradeTry[p] < MAX_RETRIES
    /\ \E o \in AttemptOutcomes :
         LET l == AfterAttempt(gradeLocals[p], o)
             try == gradeTry[p] + 1
         IN /\ gradeTry' = [gradeTry EXCEPT ![p] = try]
            /\ gradeLocals' = [gradeLocals EXCEPT ![p] = l]
            /\ IF LoopEnds(try, o)
               THEN SaveGrade(p, l)
               ELSE UNCHANGED <<gradePc, gradeFiles>>
    /\ UNCHANGED notGradeVars

GradeInit == AgentIdle /\ BashIdle /\ DbIdle /\ ToolsIdle /\ HarnessIdle

GradeNext ==
    \/ EvalDbSubmit
    \/ \E p \in Pairs : GradeSampleEnter(p)
    \/ \E p \in Pairs : GradeAttempt(p)

SpecGrade == GradeInit /\ [][GradeNext]_vars

-----------------------------------------------------------------------------
(* Claims about the agents                                                 *)

Entries == {cmpLog[i] : i \in 1..Len(cmpLog)}

\* the indexes of the tool responses of assistant message m in message list h
ResultsOf(h, m, k) ==
    {j \in 1..Len(h) : h[j].role = "tool" /\ h[j].uid = m.uid /\ h[j].n = k}

\* C1: whenever the model is called, every tool call carried by an assistant
\* message of the list sent has exactly one tool result in that list.
C1_EveryToolCallAnswered ==
    \A i \in 1..Len(sent) :
        HasToolCalls(sent[i]) =>
            \A k \in 1..sent[i].n : Cardinality(ResultsOf(sent, sent[i], k)) = 1

\* the assistant message at i and the tool responses that immediately follow it
GroupIdx(h, i) ==
    {j \in i..Len(h) : \A m \in (i + 1)..j : h[m].role = "tool"}

GroupKept(before, after, i) ==
    \E p \in 1..Len(after) :
        \A j \in GroupIdx(before, i) :
            /\ p + (j - i) <= Len(after)
            /\ after[p + (j - i)] = before[j]

GroupGone(before, after, i) ==
    \A j \in GroupIdx(before, i) : \A p \in 1..Len(after) : after[p] # before[j]

\* C3: a compression keeps an assistant message bearing tool calls together with
\* all of its immediately following tool responses, contiguous and in order, or
\* removes all of them; on every path.
C3_GroupsAtomic ==
    \A e \in Entries :
        e.path # "skip" =>
            \A i \in 1..Len(e.before) :
                HasToolCalls(e.before[i]) =>
                    \/ GroupKept(e.before, e.after, i)
                    \/ GroupGone(e.before, e.after, i)

\* a compression by the model that removed one whole tool-call group (of at least
\* two messages) and kept another
C3_Witness ==
    \E e \in Entries :
        /\ e.path = "llm"
        /\ \E i \in 1..Len(e.before) :
              /\ HasToolCalls(e.before[i])
              /\ Cardinality(GroupIdx(e.before, i)) >= 2
              /\ GroupGone(e.before, e.after, i)
        /\ \E i \in 1..Len(e.before) :
              /\ HasToolCalls(e.before[i])
              /\ GroupKept(e.before, e.after, i)

\* C4: after a compression, on every path, the first three entries of the
\* history are the three entries that were first before it.
C4_FirstThreeUnchanged ==
    \A e \in Entries :
        e.path # "skip" =>
            /\ Len(e.after) >= 3
            /\ SubSeq(e.after, 1, 3) = SubSeq(e.before, 1, 3)

\* a forced compression whose model call failed and that shortened the history
C4_Witness ==
    \E e \in Entries :
        /\ e.path = "fallback"
        /\ Len(e.after) < Len(e.before)

HasPhase(p) == \E i \in 1..Len(phases) : phases[i] = p

\* C8: in WebGenAgent2V1.run_agent a finished step in the frontend phase ends the
\* run with success; a finished step in the backend phase resets the validation
\* counter, switches the frontend flag on and appends the frontend instruction.
\* A successful run has had exactly a backend-phase finish followed by a
\* frontend-phase finish, and the flag is on exactly from the backend-phase
\* finish onwards (it never switches back off).
C8_FinishedHandling ==
    agent = "webgen" =>
        /\ (lastStep.type = "finished" /\ lastStep.frontend) =>
              (result = "true" /\ pc \in {"returned", "done"} /\ history = stepHist)
        /\ (lastStep.type = "finished" /\ ~lastStep.frontend) =>
              /\ validation_num = 0
              /\ is_frontend
              /\ history = Append(stepHist, FrontendPrompt)
        /\ (result = "true" => phases = <<"backend", "frontend">>)
        /\ (is_frontend <=> HasPhase("backend"))

C8_Witness ==
    /\ agent = "webgen"
    /\ result = "true"
    /\ lastStep.type = "finished"
    /\ lastStep.frontend

\* C9: finished.json is written if and only if run_agent returned True, and a
\* run whose iterations are exhausted without a frontend-phase finish returns
\* False and writes no marker.
C9_MarkerOnlyOnSuccess ==
    agent = "webgen" =>
        /\ (marker => result = "true")
        /\ (pc = "done" => (marker <=> result = "true"))
        /\ ((pc \in {"returned", "done"} /\ ~HasPhase("frontend")) =>
               (result = "false" /\ step_idx = max_iterations /\ ~marker))

C9_Witness ==
    /\ agent = "webgen"
    /\ pc = "done"
    /\ result = "false"
    /\ HasPhase("backend")
    /\ ~marker

\* C10 as stated: a summary step is finished only if the message immediately
\* preceding the continuation prompt was a user turn.
C10_PrecedingPromptIsUser ==
    (/\ agent = "webgen"
     /\ lastStep.type = "finished"
     /\ Last(sent).kind \in {"validation_nudge", "summary_nudge"})
        => sent[Len(sent) - 1].role = "user"

\* C10 amended: a response without tool calls whose text begins with "Summary:"
\* makes the step finished exactly when the message immediately preceding the
\* response (the last message sent to the model) is a user turn; otherwise the
\* summary is removed from the history and the step reports to_be_continued.
\* No step is finished otherwise.
C10_SummaryAfterUserTurn ==
    agent = "webgen" =>
        /\ lastStep.resp = "summary" =>
              IF Last(sent).role = "user"
              THEN /\ lastStep.type = "finished"
                   /\ stepHist = Append(sent, Msg("assistant", "summary", step_idx, 0))
              ELSE /\ lastStep.type = "to_be_continued"
                   /\ stepHist = sent
        /\ lastStep.type = "finished" =>
              (lastStep.resp = "summary" /\ Last(sent).role = "user")

\* a summary that follows a tool response is discarded
C10_Witness ==
    /\ agent = "webgen"
    /\ lastStep.resp = "summary"
    /\ lastStep.type = "to_be_continued"
    /\ Last(sent).role = "tool"

\* C11: in run_agent a to_be_continued step is followed by the validation prompt
\* while the counter is below max_validation_num, then by the summary prompt while
\* it is below max_validation_num + max_summary_retry, each with the counter
\* raised by one, and by nothing once the counter has reached that sum; the
\* counter never exceeds the sum.
C11_NudgeBudget ==
    /\ [](validation_num <= MaxValidationNum + MaxSummaryRetry)
    /\ [][(/\ agent = "webgen" /\ pc = "loop"
           /\ step_idx' = step_idx + 1
           /\ lastStep'.type = "to_be_continued")
          => IF validation_num < MaxValidationNum
             THEN /\ history' = Append(stepHist', ValidationPrompt)
                  /\ validation_num' = validation_num + 1
             ELSE IF validation_num < MaxValidationNum + MaxSummaryRetry
             THEN /\ history' = Append(stepHist', SummaryPrompt)
                  /\ validation_num' = validation_num + 1
             ELSE /\ history' = stepHist'
                  /\ validation_num' = validation_num]_vars

\* a to_be_continued step taken with the counter at its cap: nothing was appended
C11_Witness ==
    /\ agent = "webgen"
    /\ lastStep.type = "to_be_continued"
    /\ validation_num = MaxValidationNum + MaxSummaryRetry
    /\ history = stepHist
    /\ Last(history).kind \notin {"validation_nudge", "summary_nudge"}

\* the highest entry of the logs that loads (0: none)
HighestParsable(logs) ==
    LET P == {i \in 1..Len(logs) : logs[i].parses}
    IN  IF P = {} THEN 0 ELSE CHOOSE i \in P : \A j \in P : j <= i

\* the history a snapshot holds: the request's messages and then the response
SnapshotHistory(a, base, k, e) ==
    LET f == LogFile(a, base, k, e) IN f.messages \o f.response

\* C12: initialize_agent never faults; it restores the history of the highest
\* step whose log loads and continues at that step number plus one, and when no
\* log loads it starts at step 0 with the fresh-start history.
C12_ResumeFromLatestParsable ==
    [][pc = "init" =>
         LET k == HighestParsable(resumeLogs)
             base == IF agent = "webgen" THEN SeedHistory ELSE history
         IN  /\ pc' = "loop"
             /\ IF k = 0
                THEN step_idx' = 0 /\ history' = base
                ELSE /\ step_idx' = k
                     /\ history' = SnapshotHistory(agent, base, k - 1, resumeLogs[k])]_vars

\* C13: a WebGenAgent2V1 that finds a step log that loads starts its loop with the
\* validation counter and the frontend flag the agent held when that step was
\* logged.
C13_ResumeRestoresCounterAndFlag ==
    [][(pc = "init" /\ agent = "webgen" /\ HighestParsable(resumeLogs) > 0) =>
         LET e == resumeLogs[HighestParsable(resumeLogs)]
         IN  /\ pc' = "loop"
             /\ validation_num' = e.v
             /\ is_frontend' = e.fe]_vars

\* C14: an agent that finds a step log that loads replays the state-affecting
\* calls of the recorded tool-call history in recorded order, those that fail
\* included and skipped over, and starts its loop.
C14_ReplaySkipsFailures ==
    [][(pc = "init" /\ HighestParsable(resumeLogs) > 0) =>
         LET e == resumeLogs[HighestParsable(resumeLogs)]
         IN  /\ pc' = "loop"
             /\ replayed' = SelectSeq(e.calls,
                                      LAMBDA c : c.name \in StateAffectingTools(agent))]_vars

\* the tail the successful compression keeps: the last t groups, none when t = 0
SuccessfulTail(h) ==
    LET grouped == GroupHistory(h)
        t == CompressionThreshold(Len(grouped))
    IN  IF t > 0 THEN Flatten(TakeLast(grouped, t)) ELSE <<>>

\* C15: when the compression call fails, the history becomes its first 3 entries
\* followed by exactly the tail the successful path would have kept.
C15_FallbackKeepsSuccessfulTail ==
    \A i \in 1..Len(cmpLog) :
        cmpLog[i].path = "fallback" =>
            cmpLog[i].after = InitialContext(cmpLog[i].before)
                                \o SuccessfulTail(cmpLog[i].before)

\* the verdict of the first line of a text that states one, NO if none does
FirstVerdict(text) ==
    LET V == {i \in 1..Len(text) : text[i] \in {"YES", "NO"}}
    IN  IF V = {} THEN "NO" ELSE text[CHOOSE i \in V : \A j \in V : i <= j]

JudgingPrompts(h) == {i \in 1..Len(h) : h[i] = JudgingPrompt}

C33_SummaryEndsPhaseAfterBudget ==
    [][(/\ pc = "loop" /\ agent = "webgen"
        /\ validation_num = MaxValidationNum + MaxSummaryRetry
        /\ step_idx' = step_idx + 1
        /\ lastStep'.resp = "summary")
       => (lastStep'.type = "finished" \/ history' # history)]_vars

\* C38: the forced compression that follows a 'message too long' fault
\* leaves the history with fewer messages than before whenever the history
\* holds more than the 3 preserved entries.
C38_ForcedCompressionShortens ==
    (Len(cmpLog) = 2 /\ Len(cmpLog[2].before) > 3) =>
        Len(cmpLog[2].after) < Len(cmpLog[2].before)

-----------------------------------------------------------------------------
(* Claims about the terminal session                                       *)

Markers(content) ==
    {content[i] : i \in {j \in 1..Len(content) : content[j].t \in {"ECHO", "START", "DONE"}}}

\* C2: while a foreground command is outstanding, a new submission of one command
\* (foreground or background) that is neither an input-send nor C-c is rejected
\* with the "previous command still running" error and is not sent to the pane.
C2_RejectedWhileOutstanding ==
    (/\ obs.wasOutstanding
     /\ ~obs.isInput
     /\ obs.text \in {"single", "background"})
        => (obs.kind = "error_still_running" /\ ~obs.sentToPane)

\* C5: the content returned for a foreground command holds no START/DONE marker
\* of another submission.
C5_NoForeignSentinel ==
    (/\ obs.text = "single"
     /\ ~obs.isInput
     /\ obs.kind \in {"complete", "waiting", "soft_timeout", "hard_timeout"})
        => \A m \in Markers(obs.content) : m.id = obs.sid

\* C6: whatever the session state, execute("C-c") returns the interrupted
\* observation with the pane reset (empty when the call returns) and the session
\* COMPLETE with no command outstanding, and a foreground
\* command submitted right after it is accepted and sent to the pane.
C6_InterruptCompletes ==
    /\ obs.text = "C-c" =>
          /\ obs.kind = "interrupted"
          /\ status = "COMPLETE"
          /\ (obs.fresh => pane = <<>>)
          /\ ~outstanding
    /\ (obs.prevText = "C-c" /\ obs.text = "single" /\ ~obs.isInput) =>
          /\ obs.prevStatus = "COMPLETE"
          /\ obs.sentToPane
          /\ obs.kind \in {"complete", "waiting", "soft_timeout", "hard_timeout"}

\* a C-c that interrupted a command which had run into its hard timeout
C6_Witness ==
    /\ obs.text = "C-c"
    /\ obs.fresh
    /\ obs.prevStatus = "HARD_TIMEOUT"
    /\ obs.wasOutstanding
    /\ status = "COMPLETE"

\* C7: an execute call that returns the "waiting" observation leaves the status
\* and the awaited sentinel as they were: RUNNING with the sentinel of the
\* foreground command sent by this call, or, for an input-send, the status and
\* sentinel the session had before the call; the command stays outstanding.
C7_WaitingKeepsState ==
    obs.kind = "waiting" =>
        /\ sentinel = obs.sid
        /\ IF obs.isInput
           THEN /\ status = obs.prevStatus
                /\ sentinel = obs.prevSentinel
                /\ outstanding = obs.wasOutstanding
           ELSE /\ status = "RUNNING"
                /\ outstanding

\* an input-send to a RUNNING command that returned "waiting" again
C7_Witness ==
    /\ obs.kind = "waiting"
    /\ obs.isInput
    /\ obs.prevStatus = "RUNNING"
    /\ obs.wasOutstanding
    /\ status = "RUNNING"

\* C34: an input-send to a session on which no foreground command was
\* submitted yet, or whose last command has completed, does not fault inside
\* the session: execute returns an observation or an error result.
C34_IdleInputSendReturns ==
    (/\ obs.isInput
     /\ obs.prevStatus = "COMPLETE"
     /\ ~obs.wasOutstanding)
        => obs.kind # "fault"

-----------------------------------------------------------------------------
(* Claims about DBWatcher                                                  *)

\* the rows written between the previous DBWatcher call and the last one
RowsBetweenCalls == {i \in (dbObs.prevLen + 1)..dbObs.len : TRUE}

\* C17: with a CSV log present and the checkpoint set by an earlier call, a
\* get_new_entries() made when no row was written since that earlier call returns
\* an empty list and leaves the checkpoint unchanged.
C17_NoNewRowsNoEntries ==
    (/\ dbObs.op = "get_new_entries"
     /\ dbObs.dir = "csv"
     /\ dbObs.prevOp \in {"set_ckpt", "get_new_entries"}
     /\ dbObs.prevCkpt # -1
     /\ RowsBetweenCalls = {})
        => (dbObs.ret = <<>> /\ ckpt = dbObs.prevCkpt)

\* C18: when the rows written since the checkpoint was set or last advanced are N
\* SQL-bearing rows, get_new_entries() returns exactly those N rows in log order
\* and the checkpoint advances by N.
C18_ExactlyTheNewRows ==
    (/\ dbObs.op = "get_new_entries"
     /\ dbObs.dir = "csv"
     /\ dbObs.prevOp \in {"set_ckpt", "get_new_entries"}
     /\ dbObs.prevCkpt # -1
     /\ \A i \in RowsBetweenCalls : rows[i] = "sql")
        => /\ dbObs.ret = [j \in 1..(dbObs.len - dbObs.prevLen) |-> dbObs.prevLen + j]
           /\ ckpt = dbObs.prevCkpt + (dbObs.len - dbObs.prevLen)

\* C19: without a log directory, or with one that holds no CSV file, set_ckpt()
\* records nothing and get_new_entries() returns an empty list, neither raising.
C19_RobustWithoutLogs ==
    dbObs.dir \in {"absent", "empty"} =>
        /\ ~dbObs.fault
        /\ dbObs.ret = <<>>
        /\ ckpt = -1

\* the rows of the logs that hold an SQL statement
PgSqlRows == {r \in PgRows : pgFiles[r[1]][r[2]].kind = "sql"}

\* the rows a sequence of returned entries holds
Returned(got) == {got[i] : i \in 1..Len(got)}

\* C37: with several testing agents running on one database directory, the
\* log delta of test case T holds only statements caused by T's own
\* requests, and every statement T caused is in it.
C37_DeltaHoldsOnlyOwnStatements ==
    \A w \in Watchers :
        (~pgWatch[w].running /\ pgWatch[w].ckpt # <<>>) =>
            /\ \A r \in Returned(pgWatch[w].got) :
                  pgFiles[r[1]][r[2]].by \in {0, w}
            /\ \A r \in PgSqlRows :
                  (pgFiles[r[1]][r[2]].by = w /\ r \in pgWatch[w].seen \ pgWatch[w].mark)
                      => r \in Returned(pgWatch[w].got)

\* C40: every SQL-bearing row written after set_ckpt() is returned by
\* exactly one later get_new_entries() call, and no row written before
\* set_ckpt() is ever returned, also when the server starts a new CSV log
\* in between and when the log holds malformed rows.
C40_EachNewRowReturnedOnce ==
    \A w \in Watchers :
        LET got == pgWatch[w].got
        IN  /\ \A i, j \in 1..Len(got) : i # j => got[i] # got[j]
            /\ Returned(got) \cap pgWatch[w].mark = {}
            /\ (PgSqlRows \cap pgWatch[w].seen) \ pgWatch[w].mark \subseteq Returned(got)

-----------------------------------------------------------------------------
(* Claims about ToolRegistry                                               *)

\* C20: execute_tool returns a {llmContent, returnDisplay} result for every tool
\* name and every behaviour of the tool's validate_params and execute; no fault
\* leaves it.
C20_ExecuteToolNeverRaises ==
    toolObs.outcome \in {"none", "unknown_tool_error", "invalid_params_error",
                         "execute_error", "tool_result"}

-----------------------------------------------------------------------------
(* Claims about the batch runners                                          *)

\* C21: in every run of a batch runner (WebGen-Agent, Qwen-Code, OpenHands), a
\* sample whose id the ledger holds is not handed to the agent / CLI again and
\* its workspace is not written again, however many times the runner is re-run.
C21_LedgeredSampleUntouched ==
    [][\A s \in Samples :
          s \in LedgerIds(ledger) =>
              /\ invoked'[s] = invoked[s]
              /\ artifact'[s] = artifact[s]]_vars

\* a third run has gone through the samples the first two left, while a sample
\* ledgered in the first run still has the workspace and the single invocation
\* of that run
C21_Witness ==
    /\ runNo >= 3
    /\ batchPc = "done"
    /\ \E s, t \in Samples :
          /\ s \in LedgerIds(ledger)
          /\ artifact[s] = 1
          /\ invoked[s] = 1
          /\ artifact[t] = runNo

C23_QwenRecordsEverySample ==
    (driver = "qwen" /\ batchObs.outcome \in {"returns", "raises"}
        /\ batchObs.run = runNo) =>
        /\ batchObs.outcome = "raises" => batchObs.id \in errorTrace
        /\ \E i, j \in 1..Len(batchObs.events) :
              /\ i < j
              /\ batchObs.events[i] = "stop_docker_containers"
              /\ batchObs.events[j] = "save_jsonl"
        /\ batchObs.id \in LedgerIds(ledger)
        /\ batchPc # "halted"

\* C24: in the TDDev runner, once main is past a sample whose sandbox or
\* client application it started (in the cool-down after the UI run, or out of
\* main through an error of the UI run or a client that did not come up), the
\* client application and the sandbox are stopped; and at most one sandbox runs
\* at any time.
C24_TddevAlwaysStops ==
    /\ tdPc \in {"cooldown", "halted"} =>
          /\ ~clientUp
          /\ sandboxUp = {}
    /\ Cardinality(sandboxUp) <= 1

-----------------------------------------------------------------------------
(* Claims about the Docker sandbox                                         *)

\* C25: stop_docker_containers returns True or False whatever its docker
\* commands do (success, timeout, non-zero exit, a command that cannot be
\* launched); it retries compose down once after a timeout, goes on to kill
\* and forced removal when the retry fails too, logs every failure, and returns
\* True only when a compose down succeeded.
C25_StopNeverRaises ==
    stopObs.ret # "none" =>
        /\ stopObs.ret \in {"True", "False"}
        /\ stopObs.ret = "True" <=>
              \E i \in 1..Len(stopObs.commands) :
                  stopObs.commands[i] = "down" /\ stopObs.outcomes[i] = "ok"
        /\ Len(stopObs.commands) >= 2 => stopObs.outcomes[1] = "timeout"
        /\ (Len(stopObs.commands) >= 2 /\ stopObs.outcomes[2] # "ok") =>
              stopObs.commands[3] = "kill"
        /\ (\E i \in 1..Len(stopObs.outcomes) : stopObs.outcomes[i] # "ok") =>
              stopObs.logged

\* C26: start_docker_containers runs compose up at most 3 times, again after a
\* 5-second sleep only when the failed attempt reported a missing network; it
\* returns True as soon as an attempt succeeds and False, without raising, on
\* any other failure and when the third attempt fails.
C26_StartRetriesOnMissingNetwork ==
    startObs.ret # "none" =>
        /\ Len(startObs.commands) <= MaxStartAttempts
        /\ startObs.sleeps = Len(startObs.commands) - 1
        /\ \A i \in 1..(Len(startObs.commands) - 1) :
              startObs.outcomes[i] = "network_not_found"
        /\ startObs.ret = "True" <=>
              startObs.outcomes[Len(startObs.outcomes)] = "ok"
        /\ startObs.ret \in {"True", "False"}

\* C27: two different runs that exist at the same time (different samples, or
\* one sample under different run / log roots) have no container, volume or
\* network name in common.
C27_NoSharedDockerNames ==
    \A p, q \in projects :
        p.run # q.run =>
            /\ p.container # q.container
            /\ p.volume # q.volume
            /\ p.network # q.network

-----------------------------------------------------------------------------
(* Claims about the file tools                                             *)

\* C28: a replace call whose old_string equals its new_string fails with kind
\* edit_no_change and leaves the file as it was, however often old_string
\* occurs in the file and whatever expected_replacements is.
C28_SameStringsNoChange ==
    (editObs.type # "none" /\ editObs.old = editObs.new) =>
        /\ editObs.type = "edit_no_change"
        /\ (fileExists = editObs.existed /\ file = editObs.before)

\* the lines a walk has been given so far, when no line was left out
LinesReached == Min(readObs.offset + readLimit, readObs.total_lines)

\* C29: in a walk through a text file with read_file (offset 0 first, then the
\* offset each truncated response names, any limit >= 1), the pages returned so
\* far, concatenated in order, are the first lines of the file up to the last
\* line of the last page, so that they are the whole file once a response
\* reaches its end; and a response that does not reach the end is marked
\* truncated and names the offset right after its last line.
C29_PagesReconstructFile ==
    readLimit > 0 =>
        /\ Join(pages) = Join(SubSeq(ReadLines(readText), 1, LinesReached))
        /\ LinesReached = readObs.total_lines => Join(pages) = readText
        /\ LinesReached < readObs.total_lines =>
              /\ readObs.truncated
              /\ readObs.next_offset = readObs.offset + readLimit

\* a file of three lines or more read in two pages or more, up to its end
C29_Witness ==
    /\ readLimit > 0
    /\ Len(ReadLines(readText)) >= 3
    /\ Len(pages) >= 2
    /\ LinesReached = readObs.total_lines
    /\ readObs.content # <<>>
    /\ Join(pages) = readText

\* C36: for every text file and every limit >= 1 the walk that follows the
\* next offsets of the truncation notices ends: a truncated response names a
\* next offset greater than the offset it was asked for, and with every page
\* advancing by a line at least there are never more truncated responses than
\* the file has lines.
C36_WalkReachesTheEnd ==
    (readLimit >= 1 /\ readObs.truncated) =>
        /\ readObs.next_offset > readObs.offset
        /\ Len(pages) <= readObs.total_lines

-----------------------------------------------------------------------------
(* Claims about the accuracy tables                                        *)

\* C30: what a task adds to the database score is 1 when its own
\* testing_result.json says YES and its own db_interaction_result.json says YES,
\* and 0 otherwise, whatever the other task directories hold and in whatever
\* order they are gone through; the aggregation does not fail.
C30_DbWeightIsTheTasksOwn ==
    /\ accPc # "fault"
    /\ accObs.task # 0 =>
          accObs.db_added =
              IF /\ resultDirs[accObs.task].judgement = "YES"
                 /\ resultDirs[accObs.task].db = "YES"
              THEN 1 ELSE 0

\* C31: compute_acc reports score = number of YES + half the number of
\* PARTIAL, accuracy = score / total * 100 and start_failed_num = total - yes
\* - partial - no, for the run and for every category; 3 YES, 2 PARTIAL and
\* 1 NO out of 10 are reported as score 4, accuracy 40.0, start_failed_num 4.
C31_ScoreAccuracyStartFailed ==
    caPc = "done" =>
        /\ caReport.score2 = 2 * caReport.yes_num + caReport.partial_num
        /\ caReport.accuracy = Fraction(caReport.score2 * 100, 2 * caReport.total)
        /\ caReport.start_failed_num =
              caReport.total - caReport.yes_num - caReport.partial_num
              - caReport.no_num
        /\ \A c \in CategoryNames :
              /\ categories[c].score2 =
                    2 * categories[c].yes_num + categories[c].partial_num
              /\ categories[c].total > 0 =>
                    categories[c].accuracy =
                        Fraction(categories[c].score2 * 100, 2 * categories[c].total)
              /\ categories[c].start_failed_num =
                    categories[c].total - categories[c].yes_num
                    - categories[c].partial_num - categories[c].no_num
        /\ (caReport.yes_num = 3 /\ caReport.partial_num = 2 /\ caReport.no_num = 1
            /\ caReport.total = 10) =>
              /\ caReport.score2 = 8
              /\ caReport.accuracy = [num |-> 40, den |-> 1]
              /\ caReport.start_failed_num = 4

\* a finished run of 10 test cases with 3 YES, 2 PARTIAL, 1 NO and 4 without
\* a result
C31_Witness ==
    /\ caPc = "done"
    /\ caReport.yes_num = 3
    /\ caReport.partial_num = 2
    /\ caReport.no_num = 1
    /\ caReport.total = 10
    /\ caReport.start_failed_num = 4

-----------------------------------------------------------------------------
(* Claims about the database grading                                       *)

\* C32: grading one pair makes at most 10 model attempts, stops at the first
\* attempt with a parsable answer, and in every case, all 10 attempts failing
\* included, grade_sample returns without raising and has persisted a grade
\* blob whose answer is true only if an attempt answered Yes.
C32_GradeSampleAlwaysPersists ==
    \A p \in Pairs :
        /\ gradeTry[p] <= MAX_RETRIES
        /\ gradePc[p] # "raised"
        /\ (gradePc[p] = "returned" /\ gradeTry[p] > 0) =>
              /\ gradeFiles[p].grade # NoBlob
              /\ gradeFiles[p].grade.answer => gradeLocals[p].llm_resp = "yes"
        /\ (gradePc[p] = "loop" /\ gradeTry[p] > 0) =>
              gradeLocals[p].llm_resp \notin {"yes", "no"}

-----------------------------------------------------------------------------
(* Claims about the archives of the TDDev runner *)

\* C39: the archive stored in the output directory under a sample's id was
\* downloaded for that sample's own generation request: no sample holds the
\* archive of another sample's request, and a sample without a download of
\* its own holds none.
C39_ArchiveIsTheSamplesOwn ==
    \A s \in zips : zipFrom[s] = s

====
